---- MODULE Spec2Model ----
(***************************************************************************)
(* A model of the ScrapScript language server's analysis engine: the       *)
(* parser handle and the initialize handshake, the diagnostic engine in    *)
(* its three revisions, the completion classifier with its catalogs and    *)
(* the hover resolver.  Text is a sequence of one-character strings, a     *)
(* document is its lines together with the concrete syntax tree the        *)
(* external parser yields for it, and a node is an index into the tree's   *)
(* node table.                                                             *)
(***************************************************************************)
EXTENDS Integers, Sequences, FiniteSets, TLC

\* ------------------------------------------------------------------------
\* Bounds of the model.

\* The diagnostic caps tried are 0..MaxProblems.
MaxProblems == 4

\* ------------------------------------------------------------------------
\* JavaScript string operations, on sequences of characters.

\* The character U+0060, which a string literal cannot hold.
Backtick == "BACKTICK"

Min(a, b) == IF a < b THEN a ELSE b

Max(a, b) == IF a > b THEN a ELSE b

\* String.prototype.includes
Includes(s, sub) ==
  \E i \in 1..(Len(s) - Len(sub) + 1) : SubSeq(s, i, i + Len(sub) - 1) = sub

\* String.prototype.startsWith
StartsWith(s, p) == Len(s) >= Len(p) /\ SubSeq(s, 1, Len(p)) = p

IsSpace(c) == c \in {" ", "\n", "\t"}

RECURSIVE TrimStart(_)
TrimStart(s) ==
  IF s # <<>> /\ IsSpace(Head(s)) THEN TrimStart(Tail(s)) ELSE s

RECURSIVE TrimEnd(_)
TrimEnd(s) ==
  IF s # <<>> /\ IsSpace(s[Len(s)]) THEN TrimEnd(SubSeq(s, 1, Len(s) - 1)) ELSE s

\* String.prototype.trim
Trim(s) == TrimEnd(TrimStart(s))

\* The regular expression /^[a-z]/
LowerCase ==
  {"a", "b", "c", "d", "e", "f", "g", "h", "i", "j", "k", "l", "m",
   "n", "o", "p", "q", "r", "s", "t", "u", "v", "w", "x", "y", "z"}

StartsLowerCase(s) == s # <<>> /\ Head(s) \in LowerCase

\* Array.prototype.slice(0, k) for k >= 0
Slice(s, k) == SubSeq(s, 1, Min(k, Len(s)))

Flatten(ss) ==
  LET RECURSIVE From(_)
      From(i) == IF i > Len(ss) THEN <<>> ELSE ss[i] \o From(i + 1)
  IN From(1)

\* The insertion order of a Set built by adding the entries of s in turn.
RECURSIVE InsertionOrder(_)
InsertionOrder(s) ==
  IF s = <<>> THEN <<>>
  ELSE LET rest == InsertionOrder(SubSeq(s, 1, Len(s) - 1))
           last == s[Len(s)]
       IN IF \E i \in 1..Len(rest) : rest[i] = last THEN rest ELSE Append(rest, last)

\* Array.prototype.join(sep) on an array of strings, as message segments.
RECURSIVE Join(_, _)
Join(s, sep) ==
  IF s = <<>> THEN <<>>
  ELSE IF Len(s) = 1 THEN <<s[1]>>
  ELSE <<s[1], sep>> \o Join(Tail(s), sep)

\* ------------------------------------------------------------------------
\* Sample documents.

\* text "1 + 2": an expression without declarations
DocInfix ==
  [ lines |-> << <<"1", " ", "+", " ", "2">> >>,
    nodes |-> <<
      [type |-> "source_file", named |-> TRUE, missing |-> FALSE, hasError |-> FALSE, parent |-> 0, kids |-> <<2>>, sr |-> 0, sc |-> 0, er |-> 0, ec |-> 5],
      [type |-> "infix", named |-> TRUE, missing |-> FALSE, hasError |-> FALSE, parent |-> 1, kids |-> <<3, 4, 5>>, sr |-> 0, sc |-> 0, er |-> 0, ec |-> 5],
      [type |-> "number", named |-> TRUE, missing |-> FALSE, hasError |-> FALSE, parent |-> 2, kids |-> <<>>, sr |-> 0, sc |-> 0, er |-> 0, ec |-> 1],
      [type |-> "op", named |-> TRUE, missing |-> FALSE, hasError |-> FALSE, parent |-> 2, kids |-> <<>>, sr |-> 0, sc |-> 2, er |-> 0, ec |-> 3],
      [type |-> "number", named |-> TRUE, missing |-> FALSE, hasError |-> FALSE, parent |-> 2, kids |-> <<>>, sr |-> 0, sc |-> 4, er |-> 0, ec |-> 5]
    >> ]

\* text "; x = 10 + ;": the parser recovers with an ERROR node
DocSyntaxError ==
  [ lines |-> << <<";", " ", "x", " ", "=", " ", "1", "0", " ", "+", " ", ";">> >>,
    nodes |-> <<
      [type |-> "source_file", named |-> TRUE, missing |-> FALSE, hasError |-> TRUE, parent |-> 0, kids |-> <<2>>, sr |-> 0, sc |-> 0, er |-> 0, ec |-> 12],
      [type |-> "ERROR", named |-> TRUE, missing |-> FALSE, hasError |-> TRUE, parent |-> 1, kids |-> <<3, 4, 5, 6, 7, 8>>, sr |-> 0, sc |-> 0, er |-> 0, ec |-> 12],
      [type |-> ";", named |-> FALSE, missing |-> FALSE, hasError |-> FALSE, parent |-> 2, kids |-> <<>>, sr |-> 0, sc |-> 0, er |-> 0, ec |-> 1],
      [type |-> "id", named |-> TRUE, missing |-> FALSE, hasError |-> FALSE, parent |-> 2, kids |-> <<>>, sr |-> 0, sc |-> 2, er |-> 0, ec |-> 3],
      [type |-> "=", named |-> FALSE, missing |-> FALSE, hasError |-> FALSE, parent |-> 2, kids |-> <<>>, sr |-> 0, sc |-> 4, er |-> 0, ec |-> 5],
      [type |-> "number", named |-> TRUE, missing |-> FALSE, hasError |-> FALSE, parent |-> 2, kids |-> <<>>, sr |-> 0, sc |-> 6, er |-> 0, ec |-> 8],
      [type |-> "op", named |-> TRUE, missing |-> FALSE, hasError |-> FALSE, parent |-> 2, kids |-> <<>>, sr |-> 0, sc |-> 9, er |-> 0, ec |-> 10],
      [type |-> ";", named |-> FALSE, missing |-> FALSE, hasError |-> FALSE, parent |-> 2, kids |-> <<>>, sr |-> 0, sc |-> 11, er |-> 0, ec |-> 12]
    >> ]

\* text "(1 + 2": the parser recovers by inserting a MISSING ")" token, no ERROR node
DocMissingParen ==
  [ lines |-> << <<"(", "1", " ", "+", " ", "2">> >>,
    nodes |-> <<
      [type |-> "source_file", named |-> TRUE, missing |-> FALSE, hasError |-> TRUE, parent |-> 0, kids |-> <<2>>, sr |-> 0, sc |-> 0, er |-> 0, ec |-> 6],
      [type |-> "parens", named |-> TRUE, missing |-> FALSE, hasError |-> TRUE, parent |-> 1, kids |-> <<3, 4, 8>>, sr |-> 0, sc |-> 0, er |-> 0, ec |-> 6],
      [type |-> "(", named |-> FALSE, missing |-> FALSE, hasError |-> FALSE, parent |-> 2, kids |-> <<>>, sr |-> 0, sc |-> 0, er |-> 0, ec |-> 1],
      [type |-> "infix", named |-> TRUE, missing |-> FALSE, hasError |-> FALSE, parent |-> 2, kids |-> <<5, 6, 7>>, sr |-> 0, sc |-> 1, er |-> 0, ec |-> 6],
      [type |-> "number", named |-> TRUE, missing |-> FALSE, hasError |-> FALSE, parent |-> 4, kids |-> <<>>, sr |-> 0, sc |-> 1, er |-> 0, ec |-> 2],
      [type |-> "op", named |-> TRUE, missing |-> FALSE, hasError |-> FALSE, parent |-> 4, kids |-> <<>>, sr |-> 0, sc |-> 3, er |-> 0, ec |-> 4],
      [type |-> "number", named |-> TRUE, missing |-> FALSE, hasError |-> FALSE, parent |-> 4, kids |-> <<>>, sr |-> 0, sc |-> 5, er |-> 0, ec |-> 6],
      [type |-> ")", named |-> FALSE, missing |-> TRUE, hasError |-> TRUE, parent |-> 2, kids |-> <<>>, sr |-> 0, sc |-> 6, er |-> 0, ec |-> 6]
    >> ]

\* text "m = [1, \"t\", 3.4]": a list literal mixing int, text and float
DocMixedList ==
  [ lines |-> << <<"m", " ", "=", " ", "[", "1", ",", " ", "\"", "t", "\"", ",", " ", "3", ".", "4", "]">> >>,
    nodes |-> <<
      [type |-> "source_file", named |-> TRUE, missing |-> FALSE, hasError |-> FALSE, parent |-> 0, kids |-> <<2>>, sr |-> 0, sc |-> 0, er |-> 0, ec |-> 17],
      [type |-> "declaration", named |-> TRUE, missing |-> FALSE, hasError |-> FALSE, parent |-> 1, kids |-> <<3, 4, 5>>, sr |-> 0, sc |-> 0, er |-> 0, ec |-> 17],
      [type |-> "id", named |-> TRUE, missing |-> FALSE, hasError |-> FALSE, parent |-> 2, kids |-> <<>>, sr |-> 0, sc |-> 0, er |-> 0, ec |-> 1],
      [type |-> "=", named |-> FALSE, missing |-> FALSE, hasError |-> FALSE, parent |-> 2, kids |-> <<>>, sr |-> 0, sc |-> 2, er |-> 0, ec |-> 3],
      [type |-> "list", named |-> TRUE, missing |-> FALSE, hasError |-> FALSE, parent |-> 2, kids |-> <<6, 7, 8, 9, 10, 11, 12>>, sr |-> 0, sc |-> 4, er |-> 0, ec |-> 17],
      [type |-> "[", named |-> FALSE, missing |-> FALSE, hasError |-> FALSE, parent |-> 5, kids |-> <<>>, sr |-> 0, sc |-> 4, er |-> 0, ec |-> 5],
      [type |-> "number", named |-> TRUE, missing |-> FALSE, hasError |-> FALSE, parent |-> 5, kids |-> <<>>, sr |-> 0, sc |-> 5, er |-> 0, ec |-> 6],
      [type |-> ",", named |-> FALSE, missing |-> FALSE, hasError |-> FALSE, parent |-> 5, kids |-> <<>>, sr |-> 0, sc |-> 6, er |-> 0, ec |-> 7],
      [type |-> "text", named |-> TRUE, missing |-> FALSE, hasError |-> FALSE, parent |-> 5, kids |-> <<>>, sr |-> 0, sc |-> 8, er |-> 0, ec |-> 11],
      [type |-> ",", named |-> FALSE, missing |-> FALSE, hasError |-> FALSE, parent |-> 5, kids |-> <<>>, sr |-> 0, sc |-> 11, er |-> 0, ec |-> 12],
      [type |-> "number", named |-> TRUE, missing |-> FALSE, hasError |-> FALSE, parent |-> 5, kids |-> <<>>, sr |-> 0, sc |-> 13, er |-> 0, ec |-> 16],
      [type |-> "]", named |-> FALSE, missing |-> FALSE, hasError |-> FALSE, parent |-> 5, kids |-> <<>>, sr |-> 0, sc |-> 16, er |-> 0, ec |-> 17]
    >> ]

\* two pattern cases without a catch-all, tags on the right-hand sides
DocMatch ==
  [ lines |-> << <<"|", " ", "0", " ", "-", ">", " ", "#", "a">>,
                <<"|", " ", "1", " ", "-", ">", " ", "#", "o", "k">> >>,
    nodes |-> <<
      [type |-> "source_file", named |-> TRUE, missing |-> FALSE, hasError |-> FALSE, parent |-> 0, kids |-> <<2>>, sr |-> 0, sc |-> 0, er |-> 1, ec |-> 10],
      [type |-> "match_fun", named |-> TRUE, missing |-> FALSE, hasError |-> FALSE, parent |-> 1, kids |-> <<3, 10>>, sr |-> 0, sc |-> 0, er |-> 1, ec |-> 10],
      [type |-> "pattern_case", named |-> TRUE, missing |-> FALSE, hasError |-> FALSE, parent |-> 2, kids |-> <<4, 5, 6, 7>>, sr |-> 0, sc |-> 0, er |-> 0, ec |-> 9],
      [type |-> "|", named |-> FALSE, missing |-> FALSE, hasError |-> FALSE, parent |-> 3, kids |-> <<>>, sr |-> 0, sc |-> 0, er |-> 0, ec |-> 1],
      [type |-> "number", named |-> TRUE, missing |-> FALSE, hasError |-> FALSE, parent |-> 3, kids |-> <<>>, sr |-> 0, sc |-> 2, er |-> 0, ec |-> 3],
      [type |-> "->", named |-> FALSE, missing |-> FALSE, hasError |-> FALSE, parent |-> 3, kids |-> <<>>, sr |-> 0, sc |-> 4, er |-> 0, ec |-> 6],
      [type |-> "tag", named |-> TRUE, missing |-> FALSE, hasError |-> FALSE, parent |-> 3, kids |-> <<8, 9>>, sr |-> 0, sc |-> 7, er |-> 0, ec |-> 9],
      [type |-> "#", named |-> FALSE, missing |-> FALSE, hasError |-> FALSE, parent |-> 7, kids |-> <<>>, sr |-> 0, sc |-> 7, er |-> 0, ec |-> 8],
      [type |-> "id", named |-> TRUE, missing |-> FALSE, hasError |-> FALSE, parent |-> 7, kids |-> <<>>, sr |-> 0, sc |-> 8, er |-> 0, ec |-> 9],
      [type |-> "pattern_case", named |-> TRUE, missing |-> FALSE, hasError |-> FALSE, parent |-> 2, kids |-> <<11, 12, 13, 14>>, sr |-> 1, sc |-> 0, er |-> 1, ec |-> 10],
      [type |-> "|", named |-> FALSE, missing |-> FALSE, hasError |-> FALSE, parent |-> 10, kids |-> <<>>, sr |-> 1, sc |-> 0, er |-> 1, ec |-> 1],
      [type |-> "number", named |-> TRUE, missing |-> FALSE, hasError |-> FALSE, parent |-> 10, kids |-> <<>>, sr |-> 1, sc |-> 2, er |-> 1, ec |-> 3],
      [type |-> "->", named |-> FALSE, missing |-> FALSE, hasError |-> FALSE, parent |-> 10, kids |-> <<>>, sr |-> 1, sc |-> 4, er |-> 1, ec |-> 6],
      [type |-> "tag", named |-> TRUE, missing |-> FALSE, hasError |-> FALSE, parent |-> 10, kids |-> <<15, 16>>, sr |-> 1, sc |-> 7, er |-> 1, ec |-> 10],
      [type |-> "#", named |-> FALSE, missing |-> FALSE, hasError |-> FALSE, parent |-> 14, kids |-> <<>>, sr |-> 1, sc |-> 7, er |-> 1, ec |-> 8],
      [type |-> "id", named |-> TRUE, missing |-> FALSE, hasError |-> FALSE, parent |-> 14, kids |-> <<>>, sr |-> 1, sc |-> 8, er |-> 1, ec |-> 10]
    >> ]

\* text "| 0 -> (1": one literal case whose body lacks its ")" (MISSING token)
DocMatchMissing ==
  [ lines |-> << <<"|", " ", "0", " ", "-", ">", " ", "(", "1">> >>,
    nodes |-> <<
      [type |-> "source_file", named |-> TRUE, missing |-> FALSE, hasError |-> TRUE, parent |-> 0, kids |-> <<2>>, sr |-> 0, sc |-> 0, er |-> 0, ec |-> 9],
      [type |-> "match_fun", named |-> TRUE, missing |-> FALSE, hasError |-> TRUE, parent |-> 1, kids |-> <<3>>, sr |-> 0, sc |-> 0, er |-> 0, ec |-> 9],
      [type |-> "pattern_case", named |-> TRUE, missing |-> FALSE, hasError |-> TRUE, parent |-> 2, kids |-> <<4, 5, 6, 7>>, sr |-> 0, sc |-> 0, er |-> 0, ec |-> 9],
      [type |-> "|", named |-> FALSE, missing |-> FALSE, hasError |-> FALSE, parent |-> 3, kids |-> <<>>, sr |-> 0, sc |-> 0, er |-> 0, ec |-> 1],
      [type |-> "number", named |-> TRUE, missing |-> FALSE, hasError |-> FALSE, parent |-> 3, kids |-> <<>>, sr |-> 0, sc |-> 2, er |-> 0, ec |-> 3],
      [type |-> "->", named |-> FALSE, missing |-> FALSE, hasError |-> FALSE, parent |-> 3, kids |-> <<>>, sr |-> 0, sc |-> 4, er |-> 0, ec |-> 6],
      [type |-> "parens", named |-> TRUE, missing |-> FALSE, hasError |-> TRUE, parent |-> 3, kids |-> <<8, 9, 10>>, sr |-> 0, sc |-> 7, er |-> 0, ec |-> 9],
      [type |-> "(", named |-> FALSE, missing |-> FALSE, hasError |-> FALSE, parent |-> 7, kids |-> <<>>, sr |-> 0, sc |-> 7, er |-> 0, ec |-> 8],
      [type |-> "number", named |-> TRUE, missing |-> FALSE, hasError |-> FALSE, parent |-> 7, kids |-> <<>>, sr |-> 0, sc |-> 8, er |-> 0, ec |-> 9],
      [type |-> ")", named |-> FALSE, missing |-> TRUE, hasError |-> TRUE, parent |-> 7, kids |-> <<>>, sr |-> 0, sc |-> 9, er |-> 0, ec |-> 9]
    >> ]

\* an expression with a where clause whose bound value is a tag
DocWhere ==
  [ lines |-> << <<"x">>,
                <<";", " ", "x", " ", "=", " ", "#", "o", "k">> >>,
    nodes |-> <<
      [type |-> "source_file", named |-> TRUE, missing |-> FALSE, hasError |-> FALSE, parent |-> 0, kids |-> <<2>>, sr |-> 0, sc |-> 0, er |-> 1, ec |-> 9],
      [type |-> "where", named |-> TRUE, missing |-> FALSE, hasError |-> FALSE, parent |-> 1, kids |-> <<3, 4, 5, 6, 7>>, sr |-> 0, sc |-> 0, er |-> 1, ec |-> 9],
      [type |-> "id", named |-> TRUE, missing |-> FALSE, hasError |-> FALSE, parent |-> 2, kids |-> <<>>, sr |-> 0, sc |-> 0, er |-> 0, ec |-> 1],
      [type |-> ";", named |-> FALSE, missing |-> FALSE, hasError |-> FALSE, parent |-> 2, kids |-> <<>>, sr |-> 1, sc |-> 0, er |-> 1, ec |-> 1],
      [type |-> "id", named |-> TRUE, missing |-> FALSE, hasError |-> FALSE, parent |-> 2, kids |-> <<>>, sr |-> 1, sc |-> 2, er |-> 1, ec |-> 3],
      [type |-> "=", named |-> FALSE, missing |-> FALSE, hasError |-> FALSE, parent |-> 2, kids |-> <<>>, sr |-> 1, sc |-> 4, er |-> 1, ec |-> 5],
      [type |-> "tag", named |-> TRUE, missing |-> FALSE, hasError |-> FALSE, parent |-> 2, kids |-> <<8, 9>>, sr |-> 1, sc |-> 6, er |-> 1, ec |-> 9],
      [type |-> "#", named |-> FALSE, missing |-> FALSE, hasError |-> FALSE, parent |-> 7, kids |-> <<>>, sr |-> 1, sc |-> 6, er |-> 1, ec |-> 7],
      [type |-> "id", named |-> TRUE, missing |-> FALSE, hasError |-> FALSE, parent |-> 7, kids |-> <<>>, sr |-> 1, sc |-> 7, er |-> 1, ec |-> 9]
    >> ]

\* a where clause lacking the "=" token, reported by the parser as an ERROR inside the where node
DocWhereBad ==
  [ lines |-> << <<"r">>,
                <<";", " ", "r", " ", "x">> >>,
    nodes |-> <<
      [type |-> "source_file", named |-> TRUE, missing |-> FALSE, hasError |-> TRUE, parent |-> 0, kids |-> <<2>>, sr |-> 0, sc |-> 0, er |-> 1, ec |-> 5],
      [type |-> "where", named |-> TRUE, missing |-> FALSE, hasError |-> TRUE, parent |-> 1, kids |-> <<3, 4, 5>>, sr |-> 0, sc |-> 0, er |-> 1, ec |-> 5],
      [type |-> "id", named |-> TRUE, missing |-> FALSE, hasError |-> FALSE, parent |-> 2, kids |-> <<>>, sr |-> 0, sc |-> 0, er |-> 0, ec |-> 1],
      [type |-> ";", named |-> FALSE, missing |-> FALSE, hasError |-> FALSE, parent |-> 2, kids |-> <<>>, sr |-> 1, sc |-> 0, er |-> 1, ec |-> 1],
      [type |-> "ERROR", named |-> TRUE, missing |-> FALSE, hasError |-> TRUE, parent |-> 2, kids |-> <<6, 7>>, sr |-> 1, sc |-> 2, er |-> 1, ec |-> 5],
      [type |-> "id", named |-> TRUE, missing |-> FALSE, hasError |-> FALSE, parent |-> 5, kids |-> <<>>, sr |-> 1, sc |-> 2, er |-> 1, ec |-> 3],
      [type |-> "id", named |-> TRUE, missing |-> FALSE, hasError |-> FALSE, parent |-> 5, kids |-> <<>>, sr |-> 1, sc |-> 4, er |-> 1, ec |-> 5]
    >> ]

\* text "a @ b.c": an operator without a documentation entry and a record access
DocOperators ==
  [ lines |-> << <<"a", " ", "@", " ", "b", ".", "c">> >>,
    nodes |-> <<
      [type |-> "source_file", named |-> TRUE, missing |-> FALSE, hasError |-> FALSE, parent |-> 0, kids |-> <<2>>, sr |-> 0, sc |-> 0, er |-> 0, ec |-> 7],
      [type |-> "infix", named |-> TRUE, missing |-> FALSE, hasError |-> FALSE, parent |-> 1, kids |-> <<3, 4, 5>>, sr |-> 0, sc |-> 0, er |-> 0, ec |-> 7],
      [type |-> "id", named |-> TRUE, missing |-> FALSE, hasError |-> FALSE, parent |-> 2, kids |-> <<>>, sr |-> 0, sc |-> 0, er |-> 0, ec |-> 1],
      [type |-> "op", named |-> TRUE, missing |-> FALSE, hasError |-> FALSE, parent |-> 2, kids |-> <<>>, sr |-> 0, sc |-> 2, er |-> 0, ec |-> 3],
      [type |-> "record_access", named |-> TRUE, missing |-> FALSE, hasError |-> FALSE, parent |-> 2, kids |-> <<6, 7, 8>>, sr |-> 0, sc |-> 4, er |-> 0, ec |-> 7],
      [type |-> "id", named |-> TRUE, missing |-> FALSE, hasError |-> FALSE, parent |-> 5, kids |-> <<>>, sr |-> 0, sc |-> 4, er |-> 0, ec |-> 5],
      [type |-> "op", named |-> TRUE, missing |-> FALSE, hasError |-> FALSE, parent |-> 5, kids |-> <<>>, sr |-> 0, sc |-> 5, er |-> 0, ec |-> 6],
      [type |-> "id", named |-> TRUE, missing |-> FALSE, hasError |-> FALSE, parent |-> 5, kids |-> <<>>, sr |-> 0, sc |-> 6, er |-> 0, ec |-> 7]
    >> ]

\* text "#foo 1 |> to-int": a custom tag applied to a number, piped into a built-in
DocTagApply ==
  [ lines |-> << <<"#", "f", "o", "o", " ", "1", " ", "|", ">", " ", "t", "o", "-", "i", "n", "t">> >>,
    nodes |-> <<
      [type |-> "source_file", named |-> TRUE, missing |-> FALSE, hasError |-> FALSE, parent |-> 0, kids |-> <<2>>, sr |-> 0, sc |-> 0, er |-> 0, ec |-> 16],
      [type |-> "pipeline", named |-> TRUE, missing |-> FALSE, hasError |-> FALSE, parent |-> 1, kids |-> <<3, 8, 9>>, sr |-> 0, sc |-> 0, er |-> 0, ec |-> 16],
      [type |-> "apply", named |-> TRUE, missing |-> FALSE, hasError |-> FALSE, parent |-> 2, kids |-> <<4, 7>>, sr |-> 0, sc |-> 0, er |-> 0, ec |-> 6],
      [type |-> "tag", named |-> TRUE, missing |-> FALSE, hasError |-> FALSE, parent |-> 3, kids |-> <<5, 6>>, sr |-> 0, sc |-> 0, er |-> 0, ec |-> 4],
      [type |-> "#", named |-> FALSE, missing |-> FALSE, hasError |-> FALSE, parent |-> 4, kids |-> <<>>, sr |-> 0, sc |-> 0, er |-> 0, ec |-> 1],
      [type |-> "id", named |-> TRUE, missing |-> FALSE, hasError |-> FALSE, parent |-> 4, kids |-> <<>>, sr |-> 0, sc |-> 1, er |-> 0, ec |-> 4],
      [type |-> "number", named |-> TRUE, missing |-> FALSE, hasError |-> FALSE, parent |-> 3, kids |-> <<>>, sr |-> 0, sc |-> 5, er |-> 0, ec |-> 6],
      [type |-> "op", named |-> TRUE, missing |-> FALSE, hasError |-> FALSE, parent |-> 2, kids |-> <<>>, sr |-> 0, sc |-> 7, er |-> 0, ec |-> 9],
      [type |-> "id", named |-> TRUE, missing |-> FALSE, hasError |-> FALSE, parent |-> 2, kids |-> <<>>, sr |-> 0, sc |-> 10, er |-> 0, ec |-> 16]
    >> ]

\* a record with a field lacking its value and a list with a dangling separator
DocRecordFun ==
  [ lines |-> << <<"{", " ", "a", " ", "}">>,
                <<"[", "1", ",", "]">> >>,
    nodes |-> <<
      [type |-> "source_file", named |-> TRUE, missing |-> FALSE, hasError |-> FALSE, parent |-> 0, kids |-> <<2, 7>>, sr |-> 0, sc |-> 0, er |-> 1, ec |-> 4],
      [type |-> "record", named |-> TRUE, missing |-> FALSE, hasError |-> FALSE, parent |-> 1, kids |-> <<3, 4, 6>>, sr |-> 0, sc |-> 0, er |-> 0, ec |-> 5],
      [type |-> "{", named |-> FALSE, missing |-> FALSE, hasError |-> FALSE, parent |-> 2, kids |-> <<>>, sr |-> 0, sc |-> 0, er |-> 0, ec |-> 1],
      [type |-> "record_field", named |-> TRUE, missing |-> FALSE, hasError |-> FALSE, parent |-> 2, kids |-> <<5>>, sr |-> 0, sc |-> 2, er |-> 0, ec |-> 3],
      [type |-> "id", named |-> TRUE, missing |-> FALSE, hasError |-> FALSE, parent |-> 4, kids |-> <<>>, sr |-> 0, sc |-> 2, er |-> 0, ec |-> 3],
      [type |-> "}", named |-> FALSE, missing |-> FALSE, hasError |-> FALSE, parent |-> 2, kids |-> <<>>, sr |-> 0, sc |-> 4, er |-> 0, ec |-> 5],
      [type |-> "list", named |-> TRUE, missing |-> FALSE, hasError |-> FALSE, parent |-> 1, kids |-> <<8, 9, 10, 11>>, sr |-> 1, sc |-> 0, er |-> 1, ec |-> 4],
      [type |-> "[", named |-> FALSE, missing |-> FALSE, hasError |-> FALSE, parent |-> 7, kids |-> <<>>, sr |-> 1, sc |-> 0, er |-> 1, ec |-> 1],
      [type |-> "number", named |-> TRUE, missing |-> FALSE, hasError |-> FALSE, parent |-> 7, kids |-> <<>>, sr |-> 1, sc |-> 1, er |-> 1, ec |-> 2],
      [type |-> ",", named |-> FALSE, missing |-> FALSE, hasError |-> FALSE, parent |-> 7, kids |-> <<>>, sr |-> 1, sc |-> 2, er |-> 1, ec |-> 3],
      [type |-> "]", named |-> FALSE, missing |-> FALSE, hasError |-> FALSE, parent |-> 7, kids |-> <<>>, sr |-> 1, sc |-> 3, er |-> 1, ec |-> 4]
    >> ]

\* text "f = x -> ()": a function declaration returning the hole
DocFun ==
  [ lines |-> << <<"f", " ", "=", " ", "x", " ", "-", ">", " ", "(", ")">> >>,
    nodes |-> <<
      [type |-> "source_file", named |-> TRUE, missing |-> FALSE, hasError |-> FALSE, parent |-> 0, kids |-> <<2>>, sr |-> 0, sc |-> 0, er |-> 0, ec |-> 11],
      [type |-> "declaration", named |-> TRUE, missing |-> FALSE, hasError |-> FALSE, parent |-> 1, kids |-> <<3, 4, 5>>, sr |-> 0, sc |-> 0, er |-> 0, ec |-> 11],
      [type |-> "id", named |-> TRUE, missing |-> FALSE, hasError |-> FALSE, parent |-> 2, kids |-> <<>>, sr |-> 0, sc |-> 0, er |-> 0, ec |-> 1],
      [type |-> "=", named |-> FALSE, missing |-> FALSE, hasError |-> FALSE, parent |-> 2, kids |-> <<>>, sr |-> 0, sc |-> 2, er |-> 0, ec |-> 3],
      [type |-> "fun", named |-> TRUE, missing |-> FALSE, hasError |-> FALSE, parent |-> 2, kids |-> <<6, 7, 8>>, sr |-> 0, sc |-> 4, er |-> 0, ec |-> 11],
      [type |-> "id", named |-> TRUE, missing |-> FALSE, hasError |-> FALSE, parent |-> 5, kids |-> <<>>, sr |-> 0, sc |-> 4, er |-> 0, ec |-> 5],
      [type |-> "->", named |-> FALSE, missing |-> FALSE, hasError |-> FALSE, parent |-> 5, kids |-> <<>>, sr |-> 0, sc |-> 6, er |-> 0, ec |-> 8],
      [type |-> "hole", named |-> TRUE, missing |-> FALSE, hasError |-> FALSE, parent |-> 5, kids |-> <<>>, sr |-> 0, sc |-> 9, er |-> 0, ec |-> 11]
    >> ]

\* integer literals on both sides of the thresholds 255 and 1000000, and a float
DocNumbers ==
  [ lines |-> << <<"n", " ", "=", " ", "[", "2", "5", "5", ",", " ", "2", "5", "6", ",", " ", "1", "0", "0", "0", "0", "0", "0", ",", " ", "1", "0", "0", "0", "0", "0", "1", ",", " ", "2", ".", "5", "0", "]">> >>,
    nodes |-> <<
      [type |-> "source_file", named |-> TRUE, missing |-> FALSE, hasError |-> FALSE, parent |-> 0, kids |-> <<2>>, sr |-> 0, sc |-> 0, er |-> 0, ec |-> 38],
      [type |-> "declaration", named |-> TRUE, missing |-> FALSE, hasError |-> FALSE, parent |-> 1, kids |-> <<3, 4, 5>>, sr |-> 0, sc |-> 0, er |-> 0, ec |-> 38],
      [type |-> "id", named |-> TRUE, missing |-> FALSE, hasError |-> FALSE, parent |-> 2, kids |-> <<>>, sr |-> 0, sc |-> 0, er |-> 0, ec |-> 1],
      [type |-> "=", named |-> FALSE, missing |-> FALSE, hasError |-> FALSE, parent |-> 2, kids |-> <<>>, sr |-> 0, sc |-> 2, er |-> 0, ec |-> 3],
      [type |-> "list", named |-> TRUE, missing |-> FALSE, hasError |-> FALSE, parent |-> 2, kids |-> <<6, 7, 8, 9, 10, 11, 12, 13, 14, 15, 16>>, sr |-> 0, sc |-> 4, er |-> 0, ec |-> 38],
      [type |-> "[", named |-> FALSE, missing |-> FALSE, hasError |-> FALSE, parent |-> 5, kids |-> <<>>, sr |-> 0, sc |-> 4, er |-> 0, ec |-> 5],
      [type |-> "number", named |-> TRUE, missing |-> FALSE, hasError |-> FALSE, parent |-> 5, kids |-> <<>>, sr |-> 0, sc |-> 5, er |-> 0, ec |-> 8],
      [type |-> ",", named |-> FALSE, missing |-> FALSE, hasError |-> FALSE, parent |-> 5, kids |-> <<>>, sr |-> 0, sc |-> 8, er |-> 0, ec |-> 9],
      [type |-> "number", named |-> TRUE, missing |-> FALSE, hasError |-> FALSE, parent |-> 5, kids |-> <<>>, sr |-> 0, sc |-> 10, er |-> 0, ec |-> 13],
      [type |-> ",", named |-> FALSE, missing |-> FALSE, hasError |-> FALSE, parent |-> 5, kids |-> <<>>, sr |-> 0, sc |-> 13, er |-> 0, ec |-> 14],
      [type |-> "number", named |-> TRUE, missing |-> FALSE, hasError |-> FALSE, parent |-> 5, kids |-> <<>>, sr |-> 0, sc |-> 15, er |-> 0, ec |-> 22],
      [type |-> ",", named |-> FALSE, missing |-> FALSE, hasError |-> FALSE, parent |-> 5, kids |-> <<>>, sr |-> 0, sc |-> 22, er |-> 0, ec |-> 23],
      [type |-> "number", named |-> TRUE, missing |-> FALSE, hasError |-> FALSE, parent |-> 5, kids |-> <<>>, sr |-> 0, sc |-> 24, er |-> 0, ec |-> 31],
      [type |-> ",", named |-> FALSE, missing |-> FALSE, hasError |-> FALSE, parent |-> 5, kids |-> <<>>, sr |-> 0, sc |-> 31, er |-> 0, ec |-> 32],
      [type |-> "number", named |-> TRUE, missing |-> FALSE, hasError |-> FALSE, parent |-> 5, kids |-> <<>>, sr |-> 0, sc |-> 33, er |-> 0, ec |-> 37],
      [type |-> "]", named |-> FALSE, missing |-> FALSE, hasError |-> FALSE, parent |-> 5, kids |-> <<>>, sr |-> 0, sc |-> 37, er |-> 0, ec |-> 38]
    >> ]

\* text "[1 ? 2] ; ]": three ERROR nodes, one inside a list, one anonymous, one nested in it
DocErrors ==
  [ lines |-> << <<"[", "1", " ", "?", " ", "2", "]", " ", ";", " ", "]">> >>,
    nodes |-> <<
      [type |-> "source_file", named |-> TRUE, missing |-> FALSE, hasError |-> TRUE, parent |-> 0, kids |-> <<2, 9>>, sr |-> 0, sc |-> 0, er |-> 0, ec |-> 11],
      [type |-> "list", named |-> TRUE, missing |-> FALSE, hasError |-> TRUE, parent |-> 1, kids |-> <<3, 4, 5, 7, 8>>, sr |-> 0, sc |-> 0, er |-> 0, ec |-> 7],
      [type |-> "[", named |-> FALSE, missing |-> FALSE, hasError |-> FALSE, parent |-> 2, kids |-> <<>>, sr |-> 0, sc |-> 0, er |-> 0, ec |-> 1],
      [type |-> "number", named |-> TRUE, missing |-> FALSE, hasError |-> FALSE, parent |-> 2, kids |-> <<>>, sr |-> 0, sc |-> 1, er |-> 0, ec |-> 2],
      [type |-> "ERROR", named |-> TRUE, missing |-> FALSE, hasError |-> TRUE, parent |-> 2, kids |-> <<6>>, sr |-> 0, sc |-> 3, er |-> 0, ec |-> 4],
      [type |-> "?", named |-> FALSE, missing |-> FALSE, hasError |-> FALSE, parent |-> 5, kids |-> <<>>, sr |-> 0, sc |-> 3, er |-> 0, ec |-> 4],
      [type |-> "number", named |-> TRUE, missing |-> FALSE, hasError |-> FALSE, parent |-> 2, kids |-> <<>>, sr |-> 0, sc |-> 5, er |-> 0, ec |-> 6],
      [type |-> "]", named |-> FALSE, missing |-> FALSE, hasError |-> FALSE, parent |-> 2, kids |-> <<>>, sr |-> 0, sc |-> 6, er |-> 0, ec |-> 7],
      [type |-> "ERROR", named |-> FALSE, missing |-> FALSE, hasError |-> TRUE, parent |-> 1, kids |-> <<10, 11>>, sr |-> 0, sc |-> 8, er |-> 0, ec |-> 11],
      [type |-> ";", named |-> FALSE, missing |-> FALSE, hasError |-> FALSE, parent |-> 9, kids |-> <<>>, sr |-> 0, sc |-> 8, er |-> 0, ec |-> 9],
      [type |-> "ERROR", named |-> TRUE, missing |-> FALSE, hasError |-> TRUE, parent |-> 9, kids |-> <<12>>, sr |-> 0, sc |-> 10, er |-> 0, ec |-> 11],
      [type |-> "]", named |-> FALSE, missing |-> FALSE, hasError |-> FALSE, parent |-> 11, kids |-> <<>>, sr |-> 0, sc |-> 10, er |-> 0, ec |-> 11]
    >> ]

\* The catalog of sample documents, each with the tree the parser yields for it.
Docs == << DocInfix, DocSyntaxError, DocMissingParen, DocMixedList, DocMatch, DocMatchMissing, DocWhere, DocWhereBad, DocOperators, DocTagApply, DocRecordFun, DocFun, DocNumbers, DocErrors >>

\* three bindings a, b, c, each a declaration node of a where clause
DocOutline ==
  [ lines |-> << <<"(", ")">>,
                <<";", " ", "a", " ", "=", " ", "1">>,
                <<";", " ", "b", " ", "=", " ", "x", " ", "-", ">", " ", "x">>,
                <<";", " ", "c", " ", "=", " ", "a">> >>,
    nodes |-> <<
      [type |-> "source_file", named |-> TRUE, missing |-> FALSE, hasError |-> FALSE, parent |-> 0, kids |-> <<2>>, sr |-> 0, sc |-> 0, er |-> 3, ec |-> 7],
      [type |-> "where", named |-> TRUE, missing |-> FALSE, hasError |-> FALSE, parent |-> 1, kids |-> <<3, 19, 20>>, sr |-> 0, sc |-> 0, er |-> 3, ec |-> 7],
      [type |-> "where", named |-> TRUE, missing |-> FALSE, hasError |-> FALSE, parent |-> 2, kids |-> <<4, 11, 12>>, sr |-> 0, sc |-> 0, er |-> 2, ec |-> 12],
      [type |-> "where", named |-> TRUE, missing |-> FALSE, hasError |-> FALSE, parent |-> 3, kids |-> <<5, 6, 7>>, sr |-> 0, sc |-> 0, er |-> 1, ec |-> 7],
      [type |-> "hole", named |-> TRUE, missing |-> FALSE, hasError |-> FALSE, parent |-> 4, kids |-> <<>>, sr |-> 0, sc |-> 0, er |-> 0, ec |-> 2],
      [type |-> ";", named |-> FALSE, missing |-> FALSE, hasError |-> FALSE, parent |-> 4, kids |-> <<>>, sr |-> 1, sc |-> 0, er |-> 1, ec |-> 1],
      [type |-> "declaration", named |-> TRUE, missing |-> FALSE, hasError |-> FALSE, parent |-> 4, kids |-> <<8, 9, 10>>, sr |-> 1, sc |-> 2, er |-> 1, ec |-> 7],
      [type |-> "id", named |-> TRUE, missing |-> FALSE, hasError |-> FALSE, parent |-> 7, kids |-> <<>>, sr |-> 1, sc |-> 2, er |-> 1, ec |-> 3],
      [type |-> "=", named |-> FALSE, missing |-> FALSE, hasError |-> FALSE, parent |-> 7, kids |-> <<>>, sr |-> 1, sc |-> 4, er |-> 1, ec |-> 5],
      [type |-> "number", named |-> TRUE, missing |-> FALSE, hasError |-> FALSE, parent |-> 7, kids |-> <<>>, sr |-> 1, sc |-> 6, er |-> 1, ec |-> 7],
      [type |-> ";", named |-> FALSE, missing |-> FALSE, hasError |-> FALSE, parent |-> 3, kids |-> <<>>, sr |-> 2, sc |-> 0, er |-> 2, ec |-> 1],
      [type |-> "declaration", named |-> TRUE, missing |-> FALSE, hasError |-> FALSE, parent |-> 3, kids |-> <<13, 14, 15>>, sr |-> 2, sc |-> 2, er |-> 2, ec |-> 12],
      [type |-> "id", named |-> TRUE, missing |-> FALSE, hasError |-> FALSE, parent |-> 12, kids |-> <<>>, sr |-> 2, sc |-> 2, er |-> 2, ec |-> 3],
      [type |-> "=", named |-> FALSE, missing |-> FALSE, hasError |-> FALSE, parent |-> 12, kids |-> <<>>, sr |-> 2, sc |-> 4, er |-> 2, ec |-> 5],
      [type |-> "fun", named |-> TRUE, missing |-> FALSE, hasError |-> FALSE, parent |-> 12, kids |-> <<16, 17, 18>>, sr |-> 2, sc |-> 6, er |-> 2, ec |-> 12],
      [type |-> "id", named |-> TRUE, missing |-> FALSE, hasError |-> FALSE, parent |-> 15, kids |-> <<>>, sr |-> 2, sc |-> 6, er |-> 2, ec |-> 7],
      [type |-> "->", named |-> FALSE, missing |-> FALSE, hasError |-> FALSE, parent |-> 15, kids |-> <<>>, sr |-> 2, sc |-> 8, er |-> 2, ec |-> 10],
      [type |-> "id", named |-> TRUE, missing |-> FALSE, hasError |-> FALSE, parent |-> 15, kids |-> <<>>, sr |-> 2, sc |-> 11, er |-> 2, ec |-> 12],
      [type |-> ";", named |-> FALSE, missing |-> FALSE, hasError |-> FALSE, parent |-> 2, kids |-> <<>>, sr |-> 3, sc |-> 0, er |-> 3, ec |-> 1],
      [type |-> "declaration", named |-> TRUE, missing |-> FALSE, hasError |-> FALSE, parent |-> 2, kids |-> <<21, 22, 23>>, sr |-> 3, sc |-> 2, er |-> 3, ec |-> 7],
      [type |-> "id", named |-> TRUE, missing |-> FALSE, hasError |-> FALSE, parent |-> 20, kids |-> <<>>, sr |-> 3, sc |-> 2, er |-> 3, ec |-> 3],
      [type |-> "=", named |-> FALSE, missing |-> FALSE, hasError |-> FALSE, parent |-> 20, kids |-> <<>>, sr |-> 3, sc |-> 4, er |-> 3, ec |-> 5],
      [type |-> "id", named |-> TRUE, missing |-> FALSE, hasError |-> FALSE, parent |-> 20, kids |-> <<>>, sr |-> 3, sc |-> 6, er |-> 3, ec |-> 7]
    >> ]

\* bindings whose values are of every kind getSymbolKind tells apart
DocKinds ==
  [ lines |-> << <<"(", ")">>,
                <<";", " ", "r", " ", "=", " ", "{", " ", "k", " ", "=", " ", "1", " ", "}">>,
                <<";", " ", "l", " ", "=", " ", "[", "1", "]">>,
                <<";", " ", "t", " ", "=", " ", "\"", "s", "\"">>,
                <<";", " ", "y", " ", "=", " ", "~", "~", "Q", "Q">>,
                <<";", " ", "g", " ", "=", " ", "#", "o", "k">>,
                <<";", " ", "h", " ", "=", " ", "(", ")">>,
                <<";", " ", "f", " ", "=", " ", "t", "o", "-", "i", "n", "t">>,
                <<";", " ", "m", " ", "=", " ", "|", " ", "_", " ", "-", ">", " ", "1">> >>,
    nodes |-> <<
      [type |-> "source_file", named |-> TRUE, missing |-> FALSE, hasError |-> FALSE, parent |-> 0, kids |-> <<2>>, sr |-> 0, sc |-> 0, er |-> 8, ec |-> 14],
      [type |-> "where", named |-> TRUE, missing |-> FALSE, hasError |-> FALSE, parent |-> 1, kids |-> <<3, 57, 58>>, sr |-> 0, sc |-> 0, er |-> 8, ec |-> 14],
      [type |-> "where", named |-> TRUE, missing |-> FALSE, hasError |-> FALSE, parent |-> 2, kids |-> <<4, 52, 53>>, sr |-> 0, sc |-> 0, er |-> 7, ec |-> 12],
      [type |-> "where", named |-> TRUE, missing |-> FALSE, hasError |-> FALSE, parent |-> 3, kids |-> <<5, 47, 48>>, sr |-> 0, sc |-> 0, er |-> 6, ec |-> 8],
      [type |-> "where", named |-> TRUE, missing |-> FALSE, hasError |-> FALSE, parent |-> 4, kids |-> <<6, 40, 41>>, sr |-> 0, sc |-> 0, er |-> 5, ec |-> 9],
      [type |-> "where", named |-> TRUE, missing |-> FALSE, hasError |-> FALSE, parent |-> 5, kids |-> <<7, 35, 36>>, sr |-> 0, sc |-> 0, er |-> 4, ec |-> 10],
      [type |-> "where", named |-> TRUE, missing |-> FALSE, hasError |-> FALSE, parent |-> 6, kids |-> <<8, 30, 31>>, sr |-> 0, sc |-> 0, er |-> 3, ec |-> 9],
      [type |-> "where", named |-> TRUE, missing |-> FALSE, hasError |-> FALSE, parent |-> 7, kids |-> <<9, 22, 23>>, sr |-> 0, sc |-> 0, er |-> 2, ec |-> 9],
      [type |-> "where", named |-> TRUE, missing |-> FALSE, hasError |-> FALSE, parent |-> 8, kids |-> <<10, 11, 12>>, sr |-> 0, sc |-> 0, er |-> 1, ec |-> 15],
      [type |-> "hole", named |-> TRUE, missing |-> FALSE, hasError |-> FALSE, parent |-> 9, kids |-> <<>>, sr |-> 0, sc |-> 0, er |-> 0, ec |-> 2],
      [type |-> ";", named |-> FALSE, missing |-> FALSE, hasError |-> FALSE, parent |-> 9, kids |-> <<>>, sr |-> 1, sc |-> 0, er |-> 1, ec |-> 1],
      [type |-> "declaration", named |-> TRUE, missing |-> FALSE, hasError |-> FALSE, parent |-> 9, kids |-> <<13, 14, 15>>, sr |-> 1, sc |-> 2, er |-> 1, ec |-> 15],
      [type |-> "id", named |-> TRUE, missing |-> FALSE, hasError |-> FALSE, parent |-> 12, kids |-> <<>>, sr |-> 1, sc |-> 2, er |-> 1, ec |-> 3],
      [type |-> "=", named |-> FALSE, missing |-> FALSE, hasError |-> FALSE, parent |-> 12, kids |-> <<>>, sr |-> 1, sc |-> 4, er |-> 1, ec |-> 5],
      [type |-> "record", named |-> TRUE, missing |-> FALSE, hasError |-> FALSE, parent |-> 12, kids |-> <<16, 17, 21>>, sr |-> 1, sc |-> 6, er |-> 1, ec |-> 15],
      [type |-> "{", named |-> FALSE, missing |-> FALSE, hasError |-> FALSE, parent |-> 15, kids |-> <<>>, sr |-> 1, sc |-> 6, er |-> 1, ec |-> 7],
      [type |-> "record_field", named |-> TRUE, missing |-> FALSE, hasError |-> FALSE, parent |-> 15, kids |-> <<18, 19, 20>>, sr |-> 1, sc |-> 8, er |-> 1, ec |-> 13],
      [type |-> "id", named |-> TRUE, missing |-> FALSE, hasError |-> FALSE, parent |-> 17, kids |-> <<>>, sr |-> 1, sc |-> 8, er |-> 1, ec |-> 9],
      [type |-> "=", named |-> FALSE, missing |-> FALSE, hasError |-> FALSE, parent |-> 17, kids |-> <<>>, sr |-> 1, sc |-> 10, er |-> 1, ec |-> 11],
      [type |-> "number", named |-> TRUE, missing |-> FALSE, hasError |-> FALSE, parent |-> 17, kids |-> <<>>, sr |-> 1, sc |-> 12, er |-> 1, ec |-> 13],
      [type |-> "}", named |-> FALSE, missing |-> FALSE, hasError |-> FALSE, parent |-> 15, kids |-> <<>>, sr |-> 1, sc |-> 14, er |-> 1, ec |-> 15],
      [type |-> ";", named |-> FALSE, missing |-> FALSE, hasError |-> FALSE, parent |-> 8, kids |-> <<>>, sr |-> 2, sc |-> 0, er |-> 2, ec |-> 1],
      [type |-> "declaration", named |-> TRUE, missing |-> FALSE, hasError |-> FALSE, parent |-> 8, kids |-> <<24, 25, 26>>, sr |-> 2, sc |-> 2, er |-> 2, ec |-> 9],
      [type |-> "id", named |-> TRUE, missing |-> FALSE, hasError |-> FALSE, parent |-> 23, kids |-> <<>>, sr |-> 2, sc |-> 2, er |-> 2, ec |-> 3],
      [type |-> "=", named |-> FALSE, missing |-> FALSE, hasError |-> FALSE, parent |-> 23, kids |-> <<>>, sr |-> 2, sc |-> 4, er |-> 2, ec |-> 5],
      [type |-> "list", named |-> TRUE, missing |-> FALSE, hasError |-> FALSE, parent |-> 23, kids |-> <<27, 28, 29>>, sr |-> 2, sc |-> 6, er |-> 2, ec |-> 9],
      [type |-> "[", named |-> FALSE, missing |-> FALSE, hasError |-> FALSE, parent |-> 26, kids |-> <<>>, sr |-> 2, sc |-> 6, er |-> 2, ec |-> 7],
      [type |-> "number", named |-> TRUE, missing |-> FALSE, hasError |-> FALSE, parent |-> 26, kids |-> <<>>, sr |-> 2, sc |-> 7, er |-> 2, ec |-> 8],
      [type |-> "]", named |-> FALSE, missing |-> FALSE, hasError |-> FALSE, parent |-> 26, kids |-> <<>>, sr |-> 2, sc |-> 8, er |-> 2, ec |-> 9],
      [type |-> ";", named |-> FALSE, missing |-> FALSE, hasError |-> FALSE, parent |-> 7, kids |-> <<>>, sr |-> 3, sc |-> 0, er |-> 3, ec |-> 1],
      [type |-> "declaration", named |-> TRUE, missing |-> FALSE, hasError |-> FALSE, parent |-> 7, kids |-> <<32, 33, 34>>, sr |-> 3, sc |-> 2, er |-> 3, ec |-> 9],
      [type |-> "id", named |-> TRUE, missing |-> FALSE, hasError |-> FALSE, parent |-> 31, kids |-> <<>>, sr |-> 3, sc |-> 2, er |-> 3, ec |-> 3],
      [type |-> "=", named |-> FALSE, missing |-> FALSE, hasError |-> FALSE, parent |-> 31, kids |-> <<>>, sr |-> 3, sc |-> 4, er |-> 3, ec |-> 5],
      [type |-> "text", named |-> TRUE, missing |-> FALSE, hasError |-> FALSE, parent |-> 31, kids |-> <<>>, sr |-> 3, sc |-> 6, er |-> 3, ec |-> 9],
      [type |-> ";", named |-> FALSE, missing |-> FALSE, hasError |-> FALSE, parent |-> 6, kids |-> <<>>, sr |-> 4, sc |-> 0, er |-> 4, ec |-> 1],
      [type |-> "declaration", named |-> TRUE, missing |-> FALSE, hasError |-> FALSE, parent |-> 6, kids |-> <<37, 38, 39>>, sr |-> 4, sc |-> 2, er |-> 4, ec |-> 10],
      [type |-> "id", named |-> TRUE, missing |-> FALSE, hasError |-> FALSE, parent |-> 36, kids |-> <<>>, sr |-> 4, sc |-> 2, er |-> 4, ec |-> 3],
      [type |-> "=", named |-> FALSE, missing |-> FALSE, hasError |-> FALSE, parent |-> 36, kids |-> <<>>, sr |-> 4, sc |-> 4, er |-> 4, ec |-> 5],
      [type |-> "bytes", named |-> TRUE, missing |-> FALSE, hasError |-> FALSE, parent |-> 36, kids |-> <<>>, sr |-> 4, sc |-> 6, er |-> 4, ec |-> 10],
      [type |-> ";", named |-> FALSE, missing |-> FALSE, hasError |-> FALSE, parent |-> 5, kids |-> <<>>, sr |-> 5, sc |-> 0, er |-> 5, ec |-> 1],
      [type |-> "declaration", named |-> TRUE, missing |-> FALSE, hasError |-> FALSE, parent |-> 5, kids |-> <<42, 43, 44>>, sr |-> 5, sc |-> 2, er |-> 5, ec |-> 9],
      [type |-> "id", named |-> TRUE, missing |-> FALSE, hasError |-> FALSE, parent |-> 41, kids |-> <<>>, sr |-> 5, sc |-> 2, er |-> 5, ec |-> 3],
      [type |-> "=", named |-> FALSE, missing |-> FALSE, hasError |-> FALSE, parent |-> 41, kids |-> <<>>, sr |-> 5, sc |-> 4, er |-> 5, ec |-> 5],
      [type |-> "tag", named |-> TRUE, missing |-> FALSE, hasError |-> FALSE, parent |-> 41, kids |-> <<45, 46>>, sr |-> 5, sc |-> 6, er |-> 5, ec |-> 9],
      [type |-> "#", named |-> FALSE, missing |-> FALSE, hasError |-> FALSE, parent |-> 44, kids |-> <<>>, sr |-> 5, sc |-> 6, er |-> 5, ec |-> 7],
      [type |-> "id", named |-> TRUE, missing |-> FALSE, hasError |-> FALSE, parent |-> 44, kids |-> <<>>, sr |-> 5, sc |-> 7, er |-> 5, ec |-> 9],
      [type |-> ";", named |-> FALSE, missing |-> FALSE, hasError |-> FALSE, parent |-> 4, kids |-> <<>>, sr |-> 6, sc |-> 0, er |-> 6, ec |-> 1],
      [type |-> "declaration", named |-> TRUE, missing |-> FALSE, hasError |-> FALSE, parent |-> 4, kids |-> <<49, 50, 51>>, sr |-> 6, sc |-> 2, er |-> 6, ec |-> 8],
      [type |-> "id", named |-> TRUE, missing |-> FALSE, hasError |-> FALSE, parent |-> 48, kids |-> <<>>, sr |-> 6, sc |-> 2, er |-> 6, ec |-> 3],
      [type |-> "=", named |-> FALSE, missing |-> FALSE, hasError |-> FALSE, parent |-> 48, kids |-> <<>>, sr |-> 6, sc |-> 4, er |-> 6, ec |-> 5],
      [type |-> "hole", named |-> TRUE, missing |-> FALSE, hasError |-> FALSE, parent |-> 48, kids |-> <<>>, sr |-> 6, sc |-> 6, er |-> 6, ec |-> 8],
      [type |-> ";", named |-> FALSE, missing |-> FALSE, hasError |-> FALSE, parent |-> 3, kids |-> <<>>, sr |-> 7, sc |-> 0, er |-> 7, ec |-> 1],
      [type |-> "declaration", named |-> TRUE, missing |-> FALSE, hasError |-> FALSE, parent |-> 3, kids |-> <<54, 55, 56>>, sr |-> 7, sc |-> 2, er |-> 7, ec |-> 12],
      [type |-> "id", named |-> TRUE, missing |-> FALSE, hasError |-> FALSE, parent |-> 53, kids |-> <<>>, sr |-> 7, sc |-> 2, er |-> 7, ec |-> 3],
      [type |-> "=", named |-> FALSE, missing |-> FALSE, hasError |-> FALSE, parent |-> 53, kids |-> <<>>, sr |-> 7, sc |-> 4, er |-> 7, ec |-> 5],
      [type |-> "id", named |-> TRUE, missing |-> FALSE, hasError |-> FALSE, parent |-> 53, kids |-> <<>>, sr |-> 7, sc |-> 6, er |-> 7, ec |-> 12],
      [type |-> ";", named |-> FALSE, missing |-> FALSE, hasError |-> FALSE, parent |-> 2, kids |-> <<>>, sr |-> 8, sc |-> 0, er |-> 8, ec |-> 1],
      [type |-> "declaration", named |-> TRUE, missing |-> FALSE, hasError |-> FALSE, parent |-> 2, kids |-> <<59, 60, 61>>, sr |-> 8, sc |-> 2, er |-> 8, ec |-> 14],
      [type |-> "id", named |-> TRUE, missing |-> FALSE, hasError |-> FALSE, parent |-> 58, kids |-> <<>>, sr |-> 8, sc |-> 2, er |-> 8, ec |-> 3],
      [type |-> "=", named |-> FALSE, missing |-> FALSE, hasError |-> FALSE, parent |-> 58, kids |-> <<>>, sr |-> 8, sc |-> 4, er |-> 8, ec |-> 5],
      [type |-> "match_fun", named |-> TRUE, missing |-> FALSE, hasError |-> FALSE, parent |-> 58, kids |-> <<62>>, sr |-> 8, sc |-> 6, er |-> 8, ec |-> 14],
      [type |-> "pattern_case", named |-> TRUE, missing |-> FALSE, hasError |-> FALSE, parent |-> 61, kids |-> <<63, 64, 65, 66>>, sr |-> 8, sc |-> 6, er |-> 8, ec |-> 14],
      [type |-> "|", named |-> FALSE, missing |-> FALSE, hasError |-> FALSE, parent |-> 62, kids |-> <<>>, sr |-> 8, sc |-> 6, er |-> 8, ec |-> 7],
      [type |-> "id", named |-> TRUE, missing |-> FALSE, hasError |-> FALSE, parent |-> 62, kids |-> <<>>, sr |-> 8, sc |-> 8, er |-> 8, ec |-> 9],
      [type |-> "->", named |-> FALSE, missing |-> FALSE, hasError |-> FALSE, parent |-> 62, kids |-> <<>>, sr |-> 8, sc |-> 10, er |-> 8, ec |-> 12],
      [type |-> "number", named |-> TRUE, missing |-> FALSE, hasError |-> FALSE, parent |-> 62, kids |-> <<>>, sr |-> 8, sc |-> 13, er |-> 8, ec |-> 14]
    >> ]

\* text "x + 2 ; x = 1", the where clause with the flat children ";" id "=" expression
DocWhereSum ==
  [ lines |-> << <<"x", " ", "+", " ", "2", " ", ";", " ", "x", " ", "=", " ", "1">> >>,
    nodes |-> <<
      [type |-> "source_file", named |-> TRUE, missing |-> FALSE, hasError |-> FALSE, parent |-> 0, kids |-> <<2>>, sr |-> 0, sc |-> 0, er |-> 0, ec |-> 13],
      [type |-> "where", named |-> TRUE, missing |-> FALSE, hasError |-> FALSE, parent |-> 1, kids |-> <<3, 7, 8, 9, 10>>, sr |-> 0, sc |-> 0, er |-> 0, ec |-> 13],
      [type |-> "infix", named |-> TRUE, missing |-> FALSE, hasError |-> FALSE, parent |-> 2, kids |-> <<4, 5, 6>>, sr |-> 0, sc |-> 0, er |-> 0, ec |-> 5],
      [type |-> "id", named |-> TRUE, missing |-> FALSE, hasError |-> FALSE, parent |-> 3, kids |-> <<>>, sr |-> 0, sc |-> 0, er |-> 0, ec |-> 1],
      [type |-> "op", named |-> TRUE, missing |-> FALSE, hasError |-> FALSE, parent |-> 3, kids |-> <<>>, sr |-> 0, sc |-> 2, er |-> 0, ec |-> 3],
      [type |-> "number", named |-> TRUE, missing |-> FALSE, hasError |-> FALSE, parent |-> 3, kids |-> <<>>, sr |-> 0, sc |-> 4, er |-> 0, ec |-> 5],
      [type |-> ";", named |-> FALSE, missing |-> FALSE, hasError |-> FALSE, parent |-> 2, kids |-> <<>>, sr |-> 0, sc |-> 6, er |-> 0, ec |-> 7],
      [type |-> "id", named |-> TRUE, missing |-> FALSE, hasError |-> FALSE, parent |-> 2, kids |-> <<>>, sr |-> 0, sc |-> 8, er |-> 0, ec |-> 9],
      [type |-> "=", named |-> FALSE, missing |-> FALSE, hasError |-> FALSE, parent |-> 2, kids |-> <<>>, sr |-> 0, sc |-> 10, er |-> 0, ec |-> 11],
      [type |-> "number", named |-> TRUE, missing |-> FALSE, hasError |-> FALSE, parent |-> 2, kids |-> <<>>, sr |-> 0, sc |-> 12, er |-> 0, ec |-> 13]
    >> ]

\* text "x + 2 ; x = 1", the where clause with a declaration node after ";"
DocWhereSumDecl ==
  [ lines |-> << <<"x", " ", "+", " ", "2", " ", ";", " ", "x", " ", "=", " ", "1">> >>,
    nodes |-> <<
      [type |-> "source_file", named |-> TRUE, missing |-> FALSE, hasError |-> FALSE, parent |-> 0, kids |-> <<2>>, sr |-> 0, sc |-> 0, er |-> 0, ec |-> 13],
      [type |-> "where", named |-> TRUE, missing |-> FALSE, hasError |-> FALSE, parent |-> 1, kids |-> <<3, 7, 8>>, sr |-> 0, sc |-> 0, er |-> 0, ec |-> 13],
      [type |-> "infix", named |-> TRUE, missing |-> FALSE, hasError |-> FALSE, parent |-> 2, kids |-> <<4, 5, 6>>, sr |-> 0, sc |-> 0, er |-> 0, ec |-> 5],
      [type |-> "id", named |-> TRUE, missing |-> FALSE, hasError |-> FALSE, parent |-> 3, kids |-> <<>>, sr |-> 0, sc |-> 0, er |-> 0, ec |-> 1],
      [type |-> "op", named |-> TRUE, missing |-> FALSE, hasError |-> FALSE, parent |-> 3, kids |-> <<>>, sr |-> 0, sc |-> 2, er |-> 0, ec |-> 3],
      [type |-> "number", named |-> TRUE, missing |-> FALSE, hasError |-> FALSE, parent |-> 3, kids |-> <<>>, sr |-> 0, sc |-> 4, er |-> 0, ec |-> 5],
      [type |-> ";", named |-> FALSE, missing |-> FALSE, hasError |-> FALSE, parent |-> 2, kids |-> <<>>, sr |-> 0, sc |-> 6, er |-> 0, ec |-> 7],
      [type |-> "declaration", named |-> TRUE, missing |-> FALSE, hasError |-> FALSE, parent |-> 2, kids |-> <<9, 10, 11>>, sr |-> 0, sc |-> 8, er |-> 0, ec |-> 13],
      [type |-> "id", named |-> TRUE, missing |-> FALSE, hasError |-> FALSE, parent |-> 8, kids |-> <<>>, sr |-> 0, sc |-> 8, er |-> 0, ec |-> 9],
      [type |-> "=", named |-> FALSE, missing |-> FALSE, hasError |-> FALSE, parent |-> 8, kids |-> <<>>, sr |-> 0, sc |-> 10, er |-> 0, ec |-> 11],
      [type |-> "number", named |-> TRUE, missing |-> FALSE, hasError |-> FALSE, parent |-> 8, kids |-> <<>>, sr |-> 0, sc |-> 12, er |-> 0, ec |-> 13]
    >> ]

\* a type declaration followed by a binding
DocTypeDecl ==
  [ lines |-> << <<"t", " ", ":", " ", "#", "a">>,
                <<";", " ", "v", " ", "=", " ", "t">> >>,
    nodes |-> <<
      [type |-> "source_file", named |-> TRUE, missing |-> FALSE, hasError |-> FALSE, parent |-> 0, kids |-> <<2>>, sr |-> 0, sc |-> 0, er |-> 1, ec |-> 7],
      [type |-> "where", named |-> TRUE, missing |-> FALSE, hasError |-> FALSE, parent |-> 1, kids |-> <<3, 9, 10>>, sr |-> 0, sc |-> 0, er |-> 1, ec |-> 7],
      [type |-> "type_declaration", named |-> TRUE, missing |-> FALSE, hasError |-> FALSE, parent |-> 2, kids |-> <<4, 5, 6>>, sr |-> 0, sc |-> 0, er |-> 0, ec |-> 6],
      [type |-> "id", named |-> TRUE, missing |-> FALSE, hasError |-> FALSE, parent |-> 3, kids |-> <<>>, sr |-> 0, sc |-> 0, er |-> 0, ec |-> 1],
      [type |-> ":", named |-> FALSE, missing |-> FALSE, hasError |-> FALSE, parent |-> 3, kids |-> <<>>, sr |-> 0, sc |-> 2, er |-> 0, ec |-> 3],
      [type |-> "tag", named |-> TRUE, missing |-> FALSE, hasError |-> FALSE, parent |-> 3, kids |-> <<7, 8>>, sr |-> 0, sc |-> 4, er |-> 0, ec |-> 6],
      [type |-> "#", named |-> FALSE, missing |-> FALSE, hasError |-> FALSE, parent |-> 6, kids |-> <<>>, sr |-> 0, sc |-> 4, er |-> 0, ec |-> 5],
      [type |-> "id", named |-> TRUE, missing |-> FALSE, hasError |-> FALSE, parent |-> 6, kids |-> <<>>, sr |-> 0, sc |-> 5, er |-> 0, ec |-> 6],
      [type |-> ";", named |-> FALSE, missing |-> FALSE, hasError |-> FALSE, parent |-> 2, kids |-> <<>>, sr |-> 1, sc |-> 0, er |-> 1, ec |-> 1],
      [type |-> "declaration", named |-> TRUE, missing |-> FALSE, hasError |-> FALSE, parent |-> 2, kids |-> <<11, 12, 13>>, sr |-> 1, sc |-> 2, er |-> 1, ec |-> 7],
      [type |-> "id", named |-> TRUE, missing |-> FALSE, hasError |-> FALSE, parent |-> 10, kids |-> <<>>, sr |-> 1, sc |-> 2, er |-> 1, ec |-> 3],
      [type |-> "=", named |-> FALSE, missing |-> FALSE, hasError |-> FALSE, parent |-> 10, kids |-> <<>>, sr |-> 1, sc |-> 4, er |-> 1, ec |-> 5],
      [type |-> "id", named |-> TRUE, missing |-> FALSE, hasError |-> FALSE, parent |-> 10, kids |-> <<>>, sr |-> 1, sc |-> 6, er |-> 1, ec |-> 7]
    >> ]

\* The sample documents with bindings.
OutlineDocs == << DocOutline, DocKinds, DocWhereSum, DocWhereSumDecl, DocTypeDecl >>

\* a literal case followed by a case whose pattern is the identifier _n
DocMatchNames ==
  [ lines |-> << <<"|", " ", "0", " ", "-", ">", " ", "1">>,
                <<"|", " ", "_", "n", " ", "-", ">", " ", "2">> >>,
    nodes |-> <<
      [type |-> "source_file", named |-> TRUE, missing |-> FALSE, hasError |-> FALSE, parent |-> 0, kids |-> <<2>>, sr |-> 0, sc |-> 0, er |-> 1, ec |-> 9],
      [type |-> "match_fun", named |-> TRUE, missing |-> FALSE, hasError |-> FALSE, parent |-> 1, kids |-> <<3, 8>>, sr |-> 0, sc |-> 0, er |-> 1, ec |-> 9],
      [type |-> "pattern_case", named |-> TRUE, missing |-> FALSE, hasError |-> FALSE, parent |-> 2, kids |-> <<4, 5, 6, 7>>, sr |-> 0, sc |-> 0, er |-> 0, ec |-> 8],
      [type |-> "|", named |-> FALSE, missing |-> FALSE, hasError |-> FALSE, parent |-> 3, kids |-> <<>>, sr |-> 0, sc |-> 0, er |-> 0, ec |-> 1],
      [type |-> "number", named |-> TRUE, missing |-> FALSE, hasError |-> FALSE, parent |-> 3, kids |-> <<>>, sr |-> 0, sc |-> 2, er |-> 0, ec |-> 3],
      [type |-> "->", named |-> FALSE, missing |-> FALSE, hasError |-> FALSE, parent |-> 3, kids |-> <<>>, sr |-> 0, sc |-> 4, er |-> 0, ec |-> 6],
      [type |-> "number", named |-> TRUE, missing |-> FALSE, hasError |-> FALSE, parent |-> 3, kids |-> <<>>, sr |-> 0, sc |-> 7, er |-> 0, ec |-> 8],
      [type |-> "pattern_case", named |-> TRUE, missing |-> FALSE, hasError |-> FALSE, parent |-> 2, kids |-> <<9, 10, 11, 12>>, sr |-> 1, sc |-> 0, er |-> 1, ec |-> 9],
      [type |-> "|", named |-> FALSE, missing |-> FALSE, hasError |-> FALSE, parent |-> 8, kids |-> <<>>, sr |-> 1, sc |-> 0, er |-> 1, ec |-> 1],
      [type |-> "id", named |-> TRUE, missing |-> FALSE, hasError |-> FALSE, parent |-> 8, kids |-> <<>>, sr |-> 1, sc |-> 2, er |-> 1, ec |-> 4],
      [type |-> "->", named |-> FALSE, missing |-> FALSE, hasError |-> FALSE, parent |-> 8, kids |-> <<>>, sr |-> 1, sc |-> 5, er |-> 1, ec |-> 7],
      [type |-> "number", named |-> TRUE, missing |-> FALSE, hasError |-> FALSE, parent |-> 8, kids |-> <<>>, sr |-> 1, sc |-> 8, er |-> 1, ec |-> 9]
    >> ]

\* pattern matches ending in the placeholder, in a lower-case identifier and in the hole, and one without cases
DocMatchCatchAll ==
  [ lines |-> << <<"[", "|", " ", "0", " ", "-", ">", " ", "1", " ", "|", " ", "_", " ", "-", ">", " ", "2", ",", " ", "|", " ", "0", " ", "-", ">", " ", "1", " ", "|", " ", "n", " ", "-", ">", " ", "2", ",", " ", "|", " ", "0", " ", "-", ">", " ", "1", " ", "|", " ", "(", ")", " ", "-", ">", " ", "2", ",", " ", "|", "]">> >>,
    nodes |-> <<
      [type |-> "source_file", named |-> TRUE, missing |-> FALSE, hasError |-> TRUE, parent |-> 0, kids |-> <<2>>, sr |-> 0, sc |-> 0, er |-> 0, ec |-> 61],
      [type |-> "list", named |-> TRUE, missing |-> FALSE, hasError |-> TRUE, parent |-> 1, kids |-> <<3, 4, 15, 16, 27, 28, 39, 40, 43>>, sr |-> 0, sc |-> 0, er |-> 0, ec |-> 61],
      [type |-> "[", named |-> FALSE, missing |-> FALSE, hasError |-> FALSE, parent |-> 2, kids |-> <<>>, sr |-> 0, sc |-> 0, er |-> 0, ec |-> 1],
      [type |-> "match_fun", named |-> TRUE, missing |-> FALSE, hasError |-> FALSE, parent |-> 2, kids |-> <<5, 10>>, sr |-> 0, sc |-> 1, er |-> 0, ec |-> 18],
      [type |-> "pattern_case", named |-> TRUE, missing |-> FALSE, hasError |-> FALSE, parent |-> 4, kids |-> <<6, 7, 8, 9>>, sr |-> 0, sc |-> 1, er |-> 0, ec |-> 9],
      [type |-> "|", named |-> FALSE, missing |-> FALSE, hasError |-> FALSE, parent |-> 5, kids |-> <<>>, sr |-> 0, sc |-> 1, er |-> 0, ec |-> 2],
      [type |-> "number", named |-> TRUE, missing |-> FALSE, hasError |-> FALSE, parent |-> 5, kids |-> <<>>, sr |-> 0, sc |-> 3, er |-> 0, ec |-> 4],
      [type |-> "->", named |-> FALSE, missing |-> FALSE, hasError |-> FALSE, parent |-> 5, kids |-> <<>>, sr |-> 0, sc |-> 5, er |-> 0, ec |-> 7],
      [type |-> "number", named |-> TRUE, missing |-> FALSE, hasError |-> FALSE, parent |-> 5, kids |-> <<>>, sr |-> 0, sc |-> 8, er |-> 0, ec |-> 9],
      [type |-> "pattern_case", named |-> TRUE, missing |-> FALSE, hasError |-> FALSE, parent |-> 4, kids |-> <<11, 12, 13, 14>>, sr |-> 0, sc |-> 10, er |-> 0, ec |-> 18],
      [type |-> "|", named |-> FALSE, missing |-> FALSE, hasError |-> FALSE, parent |-> 10, kids |-> <<>>, sr |-> 0, sc |-> 10, er |-> 0, ec |-> 11],
      [type |-> "id", named |-> TRUE, missing |-> FALSE, hasError |-> FALSE, parent |-> 10, kids |-> <<>>, sr |-> 0, sc |-> 12, er |-> 0, ec |-> 13],
      [type |-> "->", named |-> FALSE, missing |-> FALSE, hasError |-> FALSE, parent |-> 10, kids |-> <<>>, sr |-> 0, sc |-> 14, er |-> 0, ec |-> 16],
      [type |-> "number", named |-> TRUE, missing |-> FALSE, hasError |-> FALSE, parent |-> 10, kids |-> <<>>, sr |-> 0, sc |-> 17, er |-> 0, ec |-> 18],
      [type |-> ",", named |-> FALSE, missing |-> FALSE, hasError |-> FALSE, parent |-> 2, kids |-> <<>>, sr |-> 0, sc |-> 18, er |-> 0, ec |-> 19],
      [type |-> "match_fun", named |-> TRUE, missing |-> FALSE, hasError |-> FALSE, parent |-> 2, kids |-> <<17, 22>>, sr |-> 0, sc |-> 20, er |-> 0, ec |-> 37],
      [type |-> "pattern_case", named |-> TRUE, missing |-> FALSE, hasError |-> FALSE, parent |-> 16, kids |-> <<18, 19, 20, 21>>, sr |-> 0, sc |-> 20, er |-> 0, ec |-> 28],
      [type |-> "|", named |-> FALSE, missing |-> FALSE, hasError |-> FALSE, parent |-> 17, kids |-> <<>>, sr |-> 0, sc |-> 20, er |-> 0, ec |-> 21],
      [type |-> "number", named |-> TRUE, missing |-> FALSE, hasError |-> FALSE, parent |-> 17, kids |-> <<>>, sr |-> 0, sc |-> 22, er |-> 0, ec |-> 23],
      [type |-> "->", named |-> FALSE, missing |-> FALSE, hasError |-> FALSE, parent |-> 17, kids |-> <<>>, sr |-> 0, sc |-> 24, er |-> 0, ec |-> 26],
      [type |-> "number", named |-> TRUE, missing |-> FALSE, hasError |-> FALSE, parent |-> 17, kids |-> <<>>, sr |-> 0, sc |-> 27, er |-> 0, ec |-> 28],
      [type |-> "pattern_case", named |-> TRUE, missing |-> FALSE, hasError |-> FALSE, parent |-> 16, kids |-> <<23, 24, 25, 26>>, sr |-> 0, sc |-> 29, er |-> 0, ec |-> 37],
      [type |-> "|", named |-> FALSE, missing |-> FALSE, hasError |-> FALSE, parent |-> 22, kids |-> <<>>, sr |-> 0, sc |-> 29, er |-> 0, ec |-> 30],
      [type |-> "id", named |-> TRUE, missing |-> FALSE, hasError |-> FALSE, parent |-> 22, kids |-> <<>>, sr |-> 0, sc |-> 31, er |-> 0, ec |-> 32],
      [type |-> "->", named |-> FALSE, missing |-> FALSE, hasError |-> FALSE, parent |-> 22, kids |-> <<>>, sr |-> 0, sc |-> 33, er |-> 0, ec |-> 35],
      [type |-> "number", named |-> TRUE, missing |-> FALSE, hasError |-> FALSE, parent |-> 22, kids |-> <<>>, sr |-> 0, sc |-> 36, er |-> 0, ec |-> 37],
      [type |-> ",", named |-> FALSE, missing |-> FALSE, hasError |-> FALSE, parent |-> 2, kids |-> <<>>, sr |-> 0, sc |-> 37, er |-> 0, ec |-> 38],
      [type |-> "match_fun", named |-> TRUE, missing |-> FALSE, hasError |-> FALSE, parent |-> 2, kids |-> <<29, 34>>, sr |-> 0, sc |-> 39, er |-> 0, ec |-> 57],
      [type |-> "pattern_case", named |-> TRUE, missing |-> FALSE, hasError |-> FALSE, parent |-> 28, kids |-> <<30, 31, 32, 33>>, sr |-> 0, sc |-> 39, er |-> 0, ec |-> 47],
      [type |-> "|", named |-> FALSE, missing |-> FALSE, hasError |-> FALSE, parent |-> 29, kids |-> <<>>, sr |-> 0, sc |-> 39, er |-> 0, ec |-> 40],
      [type |-> "number", named |-> TRUE, missing |-> FALSE, hasError |-> FALSE, parent |-> 29, kids |-> <<>>, sr |-> 0, sc |-> 41, er |-> 0, ec |-> 42],
      [type |-> "->", named |-> FALSE, missing |-> FALSE, hasError |-> FALSE, parent |-> 29, kids |-> <<>>, sr |-> 0, sc |-> 43, er |-> 0, ec |-> 45],
      [type |-> "number", named |-> TRUE, missing |-> FALSE, hasError |-> FALSE, parent |-> 29, kids |-> <<>>, sr |-> 0, sc |-> 46, er |-> 0, ec |-> 47],
      [type |-> "pattern_case", named |-> TRUE, missing |-> FALSE, hasError |-> FALSE, parent |-> 28, kids |-> <<35, 36, 37, 38>>, sr |-> 0, sc |-> 48, er |-> 0, ec |-> 57],
      [type |-> "|", named |-> FALSE, missing |-> FALSE, hasError |-> FALSE, parent |-> 34, kids |-> <<>>, sr |-> 0, sc |-> 48, er |-> 0, ec |-> 49],
      [type |-> "hole", named |-> TRUE, missing |-> FALSE, hasError |-> FALSE, parent |-> 34, kids |-> <<>>, sr |-> 0, sc |-> 50, er |-> 0, ec |-> 52],
      [type |-> "->", named |-> FALSE, missing |-> FALSE, hasError |-> FALSE, parent |-> 34, kids |-> <<>>, sr |-> 0, sc |-> 53, er |-> 0, ec |-> 55],
      [type |-> "number", named |-> TRUE, missing |-> FALSE, hasError |-> FALSE, parent |-> 34, kids |-> <<>>, sr |-> 0, sc |-> 56, er |-> 0, ec |-> 57],
      [type |-> ",", named |-> FALSE, missing |-> FALSE, hasError |-> FALSE, parent |-> 2, kids |-> <<>>, sr |-> 0, sc |-> 57, er |-> 0, ec |-> 58],
      [type |-> "match_fun", named |-> TRUE, missing |-> FALSE, hasError |-> TRUE, parent |-> 2, kids |-> <<41>>, sr |-> 0, sc |-> 59, er |-> 0, ec |-> 60],
      [type |-> "ERROR", named |-> TRUE, missing |-> FALSE, hasError |-> TRUE, parent |-> 40, kids |-> <<42>>, sr |-> 0, sc |-> 59, er |-> 0, ec |-> 60],
      [type |-> "|", named |-> FALSE, missing |-> FALSE, hasError |-> FALSE, parent |-> 41, kids |-> <<>>, sr |-> 0, sc |-> 59, er |-> 0, ec |-> 60],
      [type |-> "]", named |-> FALSE, missing |-> FALSE, hasError |-> FALSE, parent |-> 2, kids |-> <<>>, sr |-> 0, sc |-> 60, er |-> 0, ec |-> 61]
    >> ]

\* lists of lists: ints, an int and a float, an identifier and an int, identifiers, a tag with a text and the hole, and the empty list
DocLists ==
  [ lines |-> << <<"[", "[", "1", ",", " ", "2", "]", ",", " ", "[", "1", ",", " ", "2", ".", "0", "]", ",", " ", "[", "x", ",", " ", "1", "]", ",", " ", "[", "x", ",", " ", "y", "]", ",", " ", "[", "#", "a", ",", " ", "\"", "t", "\"", ",", " ", "(", ")", "]", ",", " ", "[", "]", "]">> >>,
    nodes |-> <<
      [type |-> "source_file", named |-> TRUE, missing |-> FALSE, hasError |-> FALSE, parent |-> 0, kids |-> <<2>>, sr |-> 0, sc |-> 0, er |-> 0, ec |-> 53],
      [type |-> "list", named |-> TRUE, missing |-> FALSE, hasError |-> FALSE, parent |-> 1, kids |-> <<3, 4, 10, 11, 17, 18, 24, 25, 31, 32, 42, 43, 46>>, sr |-> 0, sc |-> 0, er |-> 0, ec |-> 53],
      [type |-> "[", named |-> FALSE, missing |-> FALSE, hasError |-> FALSE, parent |-> 2, kids |-> <<>>, sr |-> 0, sc |-> 0, er |-> 0, ec |-> 1],
      [type |-> "list", named |-> TRUE, missing |-> FALSE, hasError |-> FALSE, parent |-> 2, kids |-> <<5, 6, 7, 8, 9>>, sr |-> 0, sc |-> 1, er |-> 0, ec |-> 7],
      [type |-> "[", named |-> FALSE, missing |-> FALSE, hasError |-> FALSE, parent |-> 4, kids |-> <<>>, sr |-> 0, sc |-> 1, er |-> 0, ec |-> 2],
      [type |-> "number", named |-> TRUE, missing |-> FALSE, hasError |-> FALSE, parent |-> 4, kids |-> <<>>, sr |-> 0, sc |-> 2, er |-> 0, ec |-> 3],
      [type |-> ",", named |-> FALSE, missing |-> FALSE, hasError |-> FALSE, parent |-> 4, kids |-> <<>>, sr |-> 0, sc |-> 3, er |-> 0, ec |-> 4],
      [type |-> "number", named |-> TRUE, missing |-> FALSE, hasError |-> FALSE, parent |-> 4, kids |-> <<>>, sr |-> 0, sc |-> 5, er |-> 0, ec |-> 6],
      [type |-> "]", named |-> FALSE, missing |-> FALSE, hasError |-> FALSE, parent |-> 4, kids |-> <<>>, sr |-> 0, sc |-> 6, er |-> 0, ec |-> 7],
      [type |-> ",", named |-> FALSE, missing |-> FALSE, hasError |-> FALSE, parent |-> 2, kids |-> <<>>, sr |-> 0, sc |-> 7, er |-> 0, ec |-> 8],
      [type |-> "list", named |-> TRUE, missing |-> FALSE, hasError |-> FALSE, parent |-> 2, kids |-> <<12, 13, 14, 15, 16>>, sr |-> 0, sc |-> 9, er |-> 0, ec |-> 17],
      [type |-> "[", named |-> FALSE, missing |-> FALSE, hasError |-> FALSE, parent |-> 11, kids |-> <<>>, sr |-> 0, sc |-> 9, er |-> 0, ec |-> 10],
      [type |-> "number", named |-> TRUE, missing |-> FALSE, hasError |-> FALSE, parent |-> 11, kids |-> <<>>, sr |-> 0, sc |-> 10, er |-> 0, ec |-> 11],
      [type |-> ",", named |-> FALSE, missing |-> FALSE, hasError |-> FALSE, parent |-> 11, kids |-> <<>>, sr |-> 0, sc |-> 11, er |-> 0, ec |-> 12],
      [type |-> "number", named |-> TRUE, missing |-> FALSE, hasError |-> FALSE, parent |-> 11, kids |-> <<>>, sr |-> 0, sc |-> 13, er |-> 0, ec |-> 16],
      [type |-> "]", named |-> FALSE, missing |-> FALSE, hasError |-> FALSE, parent |-> 11, kids |-> <<>>, sr |-> 0, sc |-> 16, er |-> 0, ec |-> 17],
      [type |-> ",", named |-> FALSE, missing |-> FALSE, hasError |-> FALSE, parent |-> 2, kids |-> <<>>, sr |-> 0, sc |-> 17, er |-> 0, ec |-> 18],
      [type |-> "list", named |-> TRUE, missing |-> FALSE, hasError |-> FALSE, parent |-> 2, kids |-> <<19, 20, 21, 22, 23>>, sr |-> 0, sc |-> 19, er |-> 0, ec |-> 25],
      [type |-> "[", named |-> FALSE, missing |-> FALSE, hasError |-> FALSE, parent |-> 18, kids |-> <<>>, sr |-> 0, sc |-> 19, er |-> 0, ec |-> 20],
      [type |-> "id", named |-> TRUE, missing |-> FALSE, hasError |-> FALSE, parent |-> 18, kids |-> <<>>, sr |-> 0, sc |-> 20, er |-> 0, ec |-> 21],
      [type |-> ",", named |-> FALSE, missing |-> FALSE, hasError |-> FALSE, parent |-> 18, kids |-> <<>>, sr |-> 0, sc |-> 21, er |-> 0, ec |-> 22],
      [type |-> "number", named |-> TRUE, missing |-> FALSE, hasError |-> FALSE, parent |-> 18, kids |-> <<>>, sr |-> 0, sc |-> 23, er |-> 0, ec |-> 24],
      [type |-> "]", named |-> FALSE, missing |-> FALSE, hasError |-> FALSE, parent |-> 18, kids |-> <<>>, sr |-> 0, sc |-> 24, er |-> 0, ec |-> 25],
      [type |-> ",", named |-> FALSE, missing |-> FALSE, hasError |-> FALSE, parent |-> 2, kids |-> <<>>, sr |-> 0, sc |-> 25, er |-> 0, ec |-> 26],
      [type |-> "list", named |-> TRUE, missing |-> FALSE, hasError |-> FALSE, parent |-> 2, kids |-> <<26, 27, 28, 29, 30>>, sr |-> 0, sc |-> 27, er |-> 0, ec |-> 33],
      [type |-> "[", named |-> FALSE, missing |-> FALSE, hasError |-> FALSE, parent |-> 25, kids |-> <<>>, sr |-> 0, sc |-> 27, er |-> 0, ec |-> 28],
      [type |-> "id", named |-> TRUE, missing |-> FALSE, hasError |-> FALSE, parent |-> 25, kids |-> <<>>, sr |-> 0, sc |-> 28, er |-> 0, ec |-> 29],
      [type |-> ",", named |-> FALSE, missing |-> FALSE, hasError |-> FALSE, parent |-> 25, kids |-> <<>>, sr |-> 0, sc |-> 29, er |-> 0, ec |-> 30],
      [type |-> "id", named |-> TRUE, missing |-> FALSE, hasError |-> FALSE, parent |-> 25, kids |-> <<>>, sr |-> 0, sc |-> 31, er |-> 0, ec |-> 32],
      [type |-> "]", named |-> FALSE, missing |-> FALSE, hasError |-> FALSE, parent |-> 25, kids |-> <<>>, sr |-> 0, sc |-> 32, er |-> 0, ec |-> 33],
      [type |-> ",", named |-> FALSE, missing |-> FALSE, hasError |-> FALSE, parent |-> 2, kids |-> <<>>, sr |-> 0, sc |-> 33, er |-> 0, ec |-> 34],
      [type |-> "list", named |-> TRUE, missing |-> FALSE, hasError |-> FALSE, parent |-> 2, kids |-> <<33, 34, 37, 38, 39, 40, 41>>, sr |-> 0, sc |-> 35, er |-> 0, ec |-> 48],
      [type |-> "[", named |-> FALSE, missing |-> FALSE, hasError |-> FALSE, parent |-> 32, kids |-> <<>>, sr |-> 0, sc |-> 35, er |-> 0, ec |-> 36],
      [type |-> "tag", named |-> TRUE, missing |-> FALSE, hasError |-> FALSE, parent |-> 32, kids |-> <<35, 36>>, sr |-> 0, sc |-> 36, er |-> 0, ec |-> 38],
      [type |-> "#", named |-> FALSE, missing |-> FALSE, hasError |-> FALSE, parent |-> 34, kids |-> <<>>, sr |-> 0, sc |-> 36, er |-> 0, ec |-> 37],
      [type |-> "id", named |-> TRUE, missing |-> FALSE, hasError |-> FALSE, parent |-> 34, kids |-> <<>>, sr |-> 0, sc |-> 37, er |-> 0, ec |-> 38],
      [type |-> ",", named |-> FALSE, missing |-> FALSE, hasError |-> FALSE, parent |-> 32, kids |-> <<>>, sr |-> 0, sc |-> 38, er |-> 0, ec |-> 39],
      [type |-> "text", named |-> TRUE, missing |-> FALSE, hasError |-> FALSE, parent |-> 32, kids |-> <<>>, sr |-> 0, sc |-> 40, er |-> 0, ec |-> 43],
      [type |-> ",", named |-> FALSE, missing |-> FALSE, hasError |-> FALSE, parent |-> 32, kids |-> <<>>, sr |-> 0, sc |-> 43, er |-> 0, ec |-> 44],
      [type |-> "hole", named |-> TRUE, missing |-> FALSE, hasError |-> FALSE, parent |-> 32, kids |-> <<>>, sr |-> 0, sc |-> 45, er |-> 0, ec |-> 47],
      [type |-> "]", named |-> FALSE, missing |-> FALSE, hasError |-> FALSE, parent |-> 32, kids |-> <<>>, sr |-> 0, sc |-> 47, er |-> 0, ec |-> 48],
      [type |-> ",", named |-> FALSE, missing |-> FALSE, hasError |-> FALSE, parent |-> 2, kids |-> <<>>, sr |-> 0, sc |-> 48, er |-> 0, ec |-> 49],
      [type |-> "list", named |-> TRUE, missing |-> FALSE, hasError |-> FALSE, parent |-> 2, kids |-> <<44, 45>>, sr |-> 0, sc |-> 50, er |-> 0, ec |-> 52],
      [type |-> "[", named |-> FALSE, missing |-> FALSE, hasError |-> FALSE, parent |-> 43, kids |-> <<>>, sr |-> 0, sc |-> 50, er |-> 0, ec |-> 51],
      [type |-> "]", named |-> FALSE, missing |-> FALSE, hasError |-> FALSE, parent |-> 43, kids |-> <<>>, sr |-> 0, sc |-> 51, er |-> 0, ec |-> 52],
      [type |-> "]", named |-> FALSE, missing |-> FALSE, hasError |-> FALSE, parent |-> 2, kids |-> <<>>, sr |-> 0, sc |-> 52, er |-> 0, ec |-> 53]
    >> ]

\* a where clause that ends after its "=": its last three children are ";", the identifier and "="
DocWhereTail ==
  [ lines |-> << <<"x">>,
                <<";", " ", "x", " ", "=">> >>,
    nodes |-> <<
      [type |-> "source_file", named |-> TRUE, missing |-> FALSE, hasError |-> FALSE, parent |-> 0, kids |-> <<2>>, sr |-> 0, sc |-> 0, er |-> 1, ec |-> 5],
      [type |-> "where", named |-> TRUE, missing |-> FALSE, hasError |-> FALSE, parent |-> 1, kids |-> <<3, 4, 5, 6>>, sr |-> 0, sc |-> 0, er |-> 1, ec |-> 5],
      [type |-> "id", named |-> TRUE, missing |-> FALSE, hasError |-> FALSE, parent |-> 2, kids |-> <<>>, sr |-> 0, sc |-> 0, er |-> 0, ec |-> 1],
      [type |-> ";", named |-> FALSE, missing |-> FALSE, hasError |-> FALSE, parent |-> 2, kids |-> <<>>, sr |-> 1, sc |-> 0, er |-> 1, ec |-> 1],
      [type |-> "id", named |-> TRUE, missing |-> FALSE, hasError |-> FALSE, parent |-> 2, kids |-> <<>>, sr |-> 1, sc |-> 2, er |-> 1, ec |-> 3],
      [type |-> "=", named |-> FALSE, missing |-> FALSE, hasError |-> FALSE, parent |-> 2, kids |-> <<>>, sr |-> 1, sc |-> 4, er |-> 1, ec |-> 5]
    >> ]

\* a where clause whose ";" and identifier are not followed by "="
DocWhereNoEquals ==
  [ lines |-> << <<"x">>,
                <<";", " ", "x", " ", "1">> >>,
    nodes |-> <<
      [type |-> "source_file", named |-> TRUE, missing |-> FALSE, hasError |-> FALSE, parent |-> 0, kids |-> <<2>>, sr |-> 0, sc |-> 0, er |-> 1, ec |-> 5],
      [type |-> "where", named |-> TRUE, missing |-> FALSE, hasError |-> FALSE, parent |-> 1, kids |-> <<3, 4, 5, 6>>, sr |-> 0, sc |-> 0, er |-> 1, ec |-> 5],
      [type |-> "id", named |-> TRUE, missing |-> FALSE, hasError |-> FALSE, parent |-> 2, kids |-> <<>>, sr |-> 0, sc |-> 0, er |-> 0, ec |-> 1],
      [type |-> ";", named |-> FALSE, missing |-> FALSE, hasError |-> FALSE, parent |-> 2, kids |-> <<>>, sr |-> 1, sc |-> 0, er |-> 1, ec |-> 1],
      [type |-> "id", named |-> TRUE, missing |-> FALSE, hasError |-> FALSE, parent |-> 2, kids |-> <<>>, sr |-> 1, sc |-> 2, er |-> 1, ec |-> 3],
      [type |-> "number", named |-> TRUE, missing |-> FALSE, hasError |-> FALSE, parent |-> 2, kids |-> <<>>, sr |-> 1, sc |-> 4, er |-> 1, ec |-> 5]
    >> ]

\* The sample documents for the structural validators.
ValidatorDocs == << DocMatch, DocMixedList, DocWhere, DocWhereBad, DocWhereSumDecl, DocMatchNames, DocMatchCatchAll, DocLists, DocWhereTail, DocWhereNoEquals >>

\* a where clause whose bound value is a pattern match on a line of its own
DocWhereMatch ==
  [ lines |-> << <<"f", " ", "1">>,
                <<";", " ", "f", " ", "=">>,
                <<"|", " ", "0", " ", "-", ">", " ", "a", ".", "b">> >>,
    nodes |-> <<
      [type |-> "source_file", named |-> TRUE, missing |-> FALSE, hasError |-> FALSE, parent |-> 0, kids |-> <<2>>, sr |-> 0, sc |-> 0, er |-> 2, ec |-> 10],
      [type |-> "where", named |-> TRUE, missing |-> FALSE, hasError |-> FALSE, parent |-> 1, kids |-> <<3, 6, 7, 8, 9>>, sr |-> 0, sc |-> 0, er |-> 2, ec |-> 10],
      [type |-> "apply", named |-> TRUE, missing |-> FALSE, hasError |-> FALSE, parent |-> 2, kids |-> <<4, 5>>, sr |-> 0, sc |-> 0, er |-> 0, ec |-> 3],
      [type |-> "id", named |-> TRUE, missing |-> FALSE, hasError |-> FALSE, parent |-> 3, kids |-> <<>>, sr |-> 0, sc |-> 0, er |-> 0, ec |-> 1],
      [type |-> "number", named |-> TRUE, missing |-> FALSE, hasError |-> FALSE, parent |-> 3, kids |-> <<>>, sr |-> 0, sc |-> 2, er |-> 0, ec |-> 3],
      [type |-> ";", named |-> FALSE, missing |-> FALSE, hasError |-> FALSE, parent |-> 2, kids |-> <<>>, sr |-> 1, sc |-> 0, er |-> 1, ec |-> 1],
      [type |-> "id", named |-> TRUE, missing |-> FALSE, hasError |-> FALSE, parent |-> 2, kids |-> <<>>, sr |-> 1, sc |-> 2, er |-> 1, ec |-> 3],
      [type |-> "=", named |-> FALSE, missing |-> FALSE, hasError |-> FALSE, parent |-> 2, kids |-> <<>>, sr |-> 1, sc |-> 4, er |-> 1, ec |-> 5],
      [type |-> "match_fun", named |-> TRUE, missing |-> FALSE, hasError |-> FALSE, parent |-> 2, kids |-> <<10>>, sr |-> 2, sc |-> 0, er |-> 2, ec |-> 10],
      [type |-> "pattern_case", named |-> TRUE, missing |-> FALSE, hasError |-> FALSE, parent |-> 9, kids |-> <<11, 12, 13, 14>>, sr |-> 2, sc |-> 0, er |-> 2, ec |-> 10],
      [type |-> "|", named |-> FALSE, missing |-> FALSE, hasError |-> FALSE, parent |-> 10, kids |-> <<>>, sr |-> 2, sc |-> 0, er |-> 2, ec |-> 1],
      [type |-> "number", named |-> TRUE, missing |-> FALSE, hasError |-> FALSE, parent |-> 10, kids |-> <<>>, sr |-> 2, sc |-> 2, er |-> 2, ec |-> 3],
      [type |-> "->", named |-> FALSE, missing |-> FALSE, hasError |-> FALSE, parent |-> 10, kids |-> <<>>, sr |-> 2, sc |-> 4, er |-> 2, ec |-> 6],
      [type |-> "record_access", named |-> TRUE, missing |-> FALSE, hasError |-> FALSE, parent |-> 10, kids |-> <<15, 16, 17>>, sr |-> 2, sc |-> 7, er |-> 2, ec |-> 10],
      [type |-> "id", named |-> TRUE, missing |-> FALSE, hasError |-> FALSE, parent |-> 14, kids |-> <<>>, sr |-> 2, sc |-> 7, er |-> 2, ec |-> 8],
      [type |-> "op", named |-> TRUE, missing |-> FALSE, hasError |-> FALSE, parent |-> 14, kids |-> <<>>, sr |-> 2, sc |-> 8, er |-> 2, ec |-> 9],
      [type |-> "id", named |-> TRUE, missing |-> FALSE, hasError |-> FALSE, parent |-> 14, kids |-> <<>>, sr |-> 2, sc |-> 9, er |-> 2, ec |-> 10]
    >> ]

\* text "| 0 -> a.b": a pattern case whose body is a record access
DocMatchAccess ==
  [ lines |-> << <<"|", " ", "0", " ", "-", ">", " ", "a", ".", "b">> >>,
    nodes |-> <<
      [type |-> "source_file", named |-> TRUE, missing |-> FALSE, hasError |-> FALSE, parent |-> 0, kids |-> <<2>>, sr |-> 0, sc |-> 0, er |-> 0, ec |-> 10],
      [type |-> "match_fun", named |-> TRUE, missing |-> FALSE, hasError |-> FALSE, parent |-> 1, kids |-> <<3>>, sr |-> 0, sc |-> 0, er |-> 0, ec |-> 10],
      [type |-> "pattern_case", named |-> TRUE, missing |-> FALSE, hasError |-> FALSE, parent |-> 2, kids |-> <<4, 5, 6, 7>>, sr |-> 0, sc |-> 0, er |-> 0, ec |-> 10],
      [type |-> "|", named |-> FALSE, missing |-> FALSE, hasError |-> FALSE, parent |-> 3, kids |-> <<>>, sr |-> 0, sc |-> 0, er |-> 0, ec |-> 1],
      [type |-> "number", named |-> TRUE, missing |-> FALSE, hasError |-> FALSE, parent |-> 3, kids |-> <<>>, sr |-> 0, sc |-> 2, er |-> 0, ec |-> 3],
      [type |-> "->", named |-> FALSE, missing |-> FALSE, hasError |-> FALSE, parent |-> 3, kids |-> <<>>, sr |-> 0, sc |-> 4, er |-> 0, ec |-> 6],
      [type |-> "record_access", named |-> TRUE, missing |-> FALSE, hasError |-> FALSE, parent |-> 3, kids |-> <<8, 9, 10>>, sr |-> 0, sc |-> 7, er |-> 0, ec |-> 10],
      [type |-> "id", named |-> TRUE, missing |-> FALSE, hasError |-> FALSE, parent |-> 7, kids |-> <<>>, sr |-> 0, sc |-> 7, er |-> 0, ec |-> 8],
      [type |-> "op", named |-> TRUE, missing |-> FALSE, hasError |-> FALSE, parent |-> 7, kids |-> <<>>, sr |-> 0, sc |-> 8, er |-> 0, ec |-> 9],
      [type |-> "id", named |-> TRUE, missing |-> FALSE, hasError |-> FALSE, parent |-> 7, kids |-> <<>>, sr |-> 0, sc |-> 9, er |-> 0, ec |-> 10]
    >> ]

\* text "x : t |> use": a type annotation piped into a function
DocAnnotated ==
  [ lines |-> << <<"x", " ", ":", " ", "t", " ", "|", ">", " ", "u", "s", "e">> >>,
    nodes |-> <<
      [type |-> "source_file", named |-> TRUE, missing |-> FALSE, hasError |-> FALSE, parent |-> 0, kids |-> <<2>>, sr |-> 0, sc |-> 0, er |-> 0, ec |-> 12],
      [type |-> "pipeline", named |-> TRUE, missing |-> FALSE, hasError |-> FALSE, parent |-> 1, kids |-> <<3, 7, 8>>, sr |-> 0, sc |-> 0, er |-> 0, ec |-> 12],
      [type |-> "type_annotation", named |-> TRUE, missing |-> FALSE, hasError |-> FALSE, parent |-> 2, kids |-> <<4, 5, 6>>, sr |-> 0, sc |-> 0, er |-> 0, ec |-> 5],
      [type |-> "id", named |-> TRUE, missing |-> FALSE, hasError |-> FALSE, parent |-> 3, kids |-> <<>>, sr |-> 0, sc |-> 0, er |-> 0, ec |-> 1],
      [type |-> ":", named |-> FALSE, missing |-> FALSE, hasError |-> FALSE, parent |-> 3, kids |-> <<>>, sr |-> 0, sc |-> 2, er |-> 0, ec |-> 3],
      [type |-> "id", named |-> TRUE, missing |-> FALSE, hasError |-> FALSE, parent |-> 3, kids |-> <<>>, sr |-> 0, sc |-> 4, er |-> 0, ec |-> 5],
      [type |-> "op", named |-> TRUE, missing |-> FALSE, hasError |-> FALSE, parent |-> 2, kids |-> <<>>, sr |-> 0, sc |-> 6, er |-> 0, ec |-> 8],
      [type |-> "id", named |-> TRUE, missing |-> FALSE, hasError |-> FALSE, parent |-> 2, kids |-> <<>>, sr |-> 0, sc |-> 9, er |-> 0, ec |-> 12]
    >> ]

\* text "a |> use": a pipeline into a function whose name contains "use"
DocPipeUse ==
  [ lines |-> << <<"a", " ", "|", ">", " ", "u", "s", "e">> >>,
    nodes |-> <<
      [type |-> "source_file", named |-> TRUE, missing |-> FALSE, hasError |-> FALSE, parent |-> 0, kids |-> <<2>>, sr |-> 0, sc |-> 0, er |-> 0, ec |-> 8],
      [type |-> "pipeline", named |-> TRUE, missing |-> FALSE, hasError |-> FALSE, parent |-> 1, kids |-> <<3, 4, 5>>, sr |-> 0, sc |-> 0, er |-> 0, ec |-> 8],
      [type |-> "id", named |-> TRUE, missing |-> FALSE, hasError |-> FALSE, parent |-> 2, kids |-> <<>>, sr |-> 0, sc |-> 0, er |-> 0, ec |-> 1],
      [type |-> "op", named |-> TRUE, missing |-> FALSE, hasError |-> FALSE, parent |-> 2, kids |-> <<>>, sr |-> 0, sc |-> 2, er |-> 0, ec |-> 4],
      [type |-> "id", named |-> TRUE, missing |-> FALSE, hasError |-> FALSE, parent |-> 2, kids |-> <<>>, sr |-> 0, sc |-> 5, er |-> 0, ec |-> 8]
    >> ]

\* text "user": an identifier that contains "use"
DocUser ==
  [ lines |-> << <<"u", "s", "e", "r">> >>,
    nodes |-> <<
      [type |-> "source_file", named |-> TRUE, missing |-> FALSE, hasError |-> FALSE, parent |-> 0, kids |-> <<2>>, sr |-> 0, sc |-> 0, er |-> 0, ec |-> 4],
      [type |-> "id", named |-> TRUE, missing |-> FALSE, hasError |-> FALSE, parent |-> 1, kids |-> <<>>, sr |-> 0, sc |-> 0, er |-> 0, ec |-> 4]
    >> ]

\* text "import m": an application of the identifier import
DocImport ==
  [ lines |-> << <<"i", "m", "p", "o", "r", "t", " ", "m">> >>,
    nodes |-> <<
      [type |-> "source_file", named |-> TRUE, missing |-> FALSE, hasError |-> FALSE, parent |-> 0, kids |-> <<2>>, sr |-> 0, sc |-> 0, er |-> 0, ec |-> 8],
      [type |-> "apply", named |-> TRUE, missing |-> FALSE, hasError |-> FALSE, parent |-> 1, kids |-> <<3, 4>>, sr |-> 0, sc |-> 0, er |-> 0, ec |-> 8],
      [type |-> "id", named |-> TRUE, missing |-> FALSE, hasError |-> FALSE, parent |-> 2, kids |-> <<>>, sr |-> 0, sc |-> 0, er |-> 0, ec |-> 6],
      [type |-> "id", named |-> TRUE, missing |-> FALSE, hasError |-> FALSE, parent |-> 2, kids |-> <<>>, sr |-> 0, sc |-> 7, er |-> 0, ec |-> 8]
    >> ]

\* a pipeline continued on a line that starts with "|>"
DocPipeLine ==
  [ lines |-> << <<"a">>,
                <<"|", ">", " ", "f">> >>,
    nodes |-> <<
      [type |-> "source_file", named |-> TRUE, missing |-> FALSE, hasError |-> FALSE, parent |-> 0, kids |-> <<2>>, sr |-> 0, sc |-> 0, er |-> 1, ec |-> 4],
      [type |-> "pipeline", named |-> TRUE, missing |-> FALSE, hasError |-> FALSE, parent |-> 1, kids |-> <<3, 4, 5>>, sr |-> 0, sc |-> 0, er |-> 1, ec |-> 4],
      [type |-> "id", named |-> TRUE, missing |-> FALSE, hasError |-> FALSE, parent |-> 2, kids |-> <<>>, sr |-> 0, sc |-> 0, er |-> 0, ec |-> 1],
      [type |-> "op", named |-> TRUE, missing |-> FALSE, hasError |-> FALSE, parent |-> 2, kids |-> <<>>, sr |-> 1, sc |-> 0, er |-> 1, ec |-> 2],
      [type |-> "id", named |-> TRUE, missing |-> FALSE, hasError |-> FALSE, parent |-> 2, kids |-> <<>>, sr |-> 1, sc |-> 3, er |-> 1, ec |-> 4]
    >> ]

\* the test input of the catch-all action: two literal cases between empty lines
DocIncompletePattern ==
  [ lines |-> << <<>>,
                <<"|", " ", "0", " ", "-", ">", " ", "\"", "z", "e", "r", "o", "\"">>,
                <<"|", " ", "1", " ", "-", ">", " ", "\"", "o", "n", "e", "\"">>,
                <<>> >>,
    nodes |-> <<
      [type |-> "source_file", named |-> TRUE, missing |-> FALSE, hasError |-> FALSE, parent |-> 0, kids |-> <<2>>, sr |-> 1, sc |-> 0, er |-> 2, ec |-> 12],
      [type |-> "match_fun", named |-> TRUE, missing |-> FALSE, hasError |-> FALSE, parent |-> 1, kids |-> <<3, 8>>, sr |-> 1, sc |-> 0, er |-> 2, ec |-> 12],
      [type |-> "pattern_case", named |-> TRUE, missing |-> FALSE, hasError |-> FALSE, parent |-> 2, kids |-> <<4, 5, 6, 7>>, sr |-> 1, sc |-> 0, er |-> 1, ec |-> 13],
      [type |-> "|", named |-> FALSE, missing |-> FALSE, hasError |-> FALSE, parent |-> 3, kids |-> <<>>, sr |-> 1, sc |-> 0, er |-> 1, ec |-> 1],
      [type |-> "number", named |-> TRUE, missing |-> FALSE, hasError |-> FALSE, parent |-> 3, kids |-> <<>>, sr |-> 1, sc |-> 2, er |-> 1, ec |-> 3],
      [type |-> "->", named |-> FALSE, missing |-> FALSE, hasError |-> FALSE, parent |-> 3, kids |-> <<>>, sr |-> 1, sc |-> 4, er |-> 1, ec |-> 6],
      [type |-> "text", named |-> TRUE, missing |-> FALSE, hasError |-> FALSE, parent |-> 3, kids |-> <<>>, sr |-> 1, sc |-> 7, er |-> 1, ec |-> 13],
      [type |-> "pattern_case", named |-> TRUE, missing |-> FALSE, hasError |-> FALSE, parent |-> 2, kids |-> <<9, 10, 11, 12>>, sr |-> 2, sc |-> 0, er |-> 2, ec |-> 12],
      [type |-> "|", named |-> FALSE, missing |-> FALSE, hasError |-> FALSE, parent |-> 8, kids |-> <<>>, sr |-> 2, sc |-> 0, er |-> 2, ec |-> 1],
      [type |-> "number", named |-> TRUE, missing |-> FALSE, hasError |-> FALSE, parent |-> 8, kids |-> <<>>, sr |-> 2, sc |-> 2, er |-> 2, ec |-> 3],
      [type |-> "->", named |-> FALSE, missing |-> FALSE, hasError |-> FALSE, parent |-> 8, kids |-> <<>>, sr |-> 2, sc |-> 4, er |-> 2, ec |-> 6],
      [type |-> "text", named |-> TRUE, missing |-> FALSE, hasError |-> FALSE, parent |-> 8, kids |-> <<>>, sr |-> 2, sc |-> 7, er |-> 2, ec |-> 12]
    >> ]

\* the test input of the where-clause action: a name and a line that holds ";" only
DocIncompleteWhere ==
  [ lines |-> << <<>>,
                <<"r", "e", "s", "u", "l", "t">>,
                <<";">>,
                <<>> >>,
    nodes |-> <<
      [type |-> "source_file", named |-> TRUE, missing |-> FALSE, hasError |-> TRUE, parent |-> 0, kids |-> <<2>>, sr |-> 1, sc |-> 0, er |-> 2, ec |-> 1],
      [type |-> "ERROR", named |-> TRUE, missing |-> FALSE, hasError |-> TRUE, parent |-> 1, kids |-> <<3, 4>>, sr |-> 1, sc |-> 0, er |-> 2, ec |-> 1],
      [type |-> "id", named |-> TRUE, missing |-> FALSE, hasError |-> FALSE, parent |-> 2, kids |-> <<>>, sr |-> 1, sc |-> 0, er |-> 1, ec |-> 6],
      [type |-> ";", named |-> FALSE, missing |-> FALSE, hasError |-> FALSE, parent |-> 2, kids |-> <<>>, sr |-> 2, sc |-> 0, er |-> 2, ec |-> 1]
    >> ]

\* a pattern match followed by a line that holds "|" only, between spaces
DocIncompleteCase ==
  [ lines |-> << <<"|", " ", "0", " ", "-", ">", " ", "1">>,
                <<" ", "|", " ">> >>,
    nodes |-> <<
      [type |-> "source_file", named |-> TRUE, missing |-> FALSE, hasError |-> TRUE, parent |-> 0, kids |-> <<2>>, sr |-> 0, sc |-> 0, er |-> 1, ec |-> 2],
      [type |-> "match_fun", named |-> TRUE, missing |-> FALSE, hasError |-> TRUE, parent |-> 1, kids |-> <<3, 8>>, sr |-> 0, sc |-> 0, er |-> 1, ec |-> 2],
      [type |-> "pattern_case", named |-> TRUE, missing |-> FALSE, hasError |-> FALSE, parent |-> 2, kids |-> <<4, 5, 6, 7>>, sr |-> 0, sc |-> 0, er |-> 0, ec |-> 8],
      [type |-> "|", named |-> FALSE, missing |-> FALSE, hasError |-> FALSE, parent |-> 3, kids |-> <<>>, sr |-> 0, sc |-> 0, er |-> 0, ec |-> 1],
      [type |-> "number", named |-> TRUE, missing |-> FALSE, hasError |-> FALSE, parent |-> 3, kids |-> <<>>, sr |-> 0, sc |-> 2, er |-> 0, ec |-> 3],
      [type |-> "->", named |-> FALSE, missing |-> FALSE, hasError |-> FALSE, parent |-> 3, kids |-> <<>>, sr |-> 0, sc |-> 4, er |-> 0, ec |-> 6],
      [type |-> "number", named |-> TRUE, missing |-> FALSE, hasError |-> FALSE, parent |-> 3, kids |-> <<>>, sr |-> 0, sc |-> 7, er |-> 0, ec |-> 8],
      [type |-> "ERROR", named |-> TRUE, missing |-> FALSE, hasError |-> TRUE, parent |-> 2, kids |-> <<9>>, sr |-> 1, sc |-> 1, er |-> 1, ec |-> 2],
      [type |-> "|", named |-> FALSE, missing |-> FALSE, hasError |-> FALSE, parent |-> 8, kids |-> <<>>, sr |-> 1, sc |-> 1, er |-> 1, ec |-> 2]
    >> ]

\* The sample documents for the completion classifier, hover and code actions.
EditorDocs == << DocInfix, DocWhere, DocOperators, DocWhereMatch, DocMatchAccess, DocAnnotated, DocPipeUse, DocUser, DocImport, DocPipeLine, DocIncompletePattern, DocIncompleteWhere, DocIncompleteCase >>

\* The documents the process holds: each text with the tree the external parser
\* yields for it.  The catalog is loaded at start and never edited.
VARIABLE documents

DocIds == 1..Len(documents)

\* ------------------------------------------------------------------------
\* TextDocument: the whole text, offsets and range extraction.

RECURSIVE JoinLines(_)
JoinLines(ls) ==
  IF ls = <<>> THEN <<>>
  ELSE IF Len(ls) = 1 THEN ls[1]
  ELSE ls[1] \o <<"\n">> \o JoinLines(Tail(ls))

\* document.getText()
DocText(d) == JoinLines(documents[d].lines)

RECURSIVE LineOffset(_, _)
LineOffset(ls, line) ==
  IF line = 0 THEN 0 ELSE LineOffset(ls, line - 1) + Len(ls[line]) + 1

\* TextDocument.offsetAt: positions past the last line clamp to the end of the
\* text, characters past the end of a line clamp to the line's end.
OffsetAt(d, line, char) ==
  LET ls == documents[d].lines
  IN IF line >= Len(ls) THEN Len(DocText(d))
     ELSE LineOffset(ls, line) + Min(char, Len(ls[line + 1]))

\* document.getText(range)
GetTextRange(d, sr, sc, er, ec) ==
  SubSeq(DocText(d), OffsetAt(d, sr, sc) + 1, OffsetAt(d, er, ec))

\* The cursor positions tried: every column of every line, the line end included.
Positions(d) ==
  UNION {{<<l, c>> : c \in 0..Len(documents[d].lines[l + 1])} : l \in 0..(Len(documents[d].lines) - 1)}

\* ------------------------------------------------------------------------
\* SyntaxNode accessors.  NoNode stands for null.

NoNode == 0

NodeRec(d, n) == documents[d].nodes[n]

RootNode(d) == 1

NodeType(d, n) == NodeRec(d, n).type

Parent(d, n) == NodeRec(d, n).parent

\* node.child(i) and node.childCount, over all children
Children(d, n) == NodeRec(d, n).kids

\* node.namedChild(i) and node.namedChildCount, over the named children
NamedChildren(d, n) ==
  SelectSeq(Children(d, n), LAMBDA k : NodeRec(d, k).named)

NamedChild(d, n, i) ==
  IF i >= 0 /\ i < Len(NamedChildren(d, n)) THEN NamedChildren(d, n)[i + 1] ELSE NoNode

Child(d, n, i) ==
  IF i >= 0 /\ i < Len(Children(d, n)) THEN Children(d, n)[i + 1] ELSE NoNode

nodeToRange(d, n) ==
  LET r == NodeRec(d, n) IN <<r.sr, r.sc, r.er, r.ec>>

getNodeText(d, n) ==
  LET r == NodeRec(d, n) IN GetTextRange(d, r.sr, r.sc, r.er, r.ec)

\* Positions compared lexicographically.
PointLt(r1, c1, r2, c2) == r1 < r2 \/ (r1 = r2 /\ c1 < c2)

PointLe(r1, c1, r2, c2) == r1 < r2 \/ (r1 = r2 /\ c1 <= c2)

\* rootNode.descendantForPosition(point): starting at the root, descend into the
\* first child that ends after the point, as long as that child starts at or
\* before the point.
RECURSIVE Descend(_, _, _, _)
Descend(d, n, row, col) ==
  LET kids == Children(d, n)
      after == {i \in 1..Len(kids) :
                  PointLt(row, col, NodeRec(d, kids[i]).er, NodeRec(d, kids[i]).ec)}
  IN IF after = {} THEN n
     ELSE LET i == CHOOSE j \in after : \A m \in after : j <= m
              k == kids[i]
          IN IF PointLe(NodeRec(d, k).sr, NodeRec(d, k).sc, row, col)
             THEN Descend(d, k, row, col)
             ELSE n

getNodeAtPosition(d, line, char) == Descend(d, RootNode(d), line, char)

RECURSIVE findParentOfType(_, _, _)
findParentOfType(d, n, type) ==
  IF n = NoNode THEN NoNode
  ELSE IF NodeType(d, n) = type THEN n
  ELSE findParentOfType(d, Parent(d, n), type)

\* walkTree: the nodes in the order the callback sees them (pre-order over the
\* named children).
RECURSIVE walkTree(_, _)
walkTree(d, n) ==
  LET RECURSIVE Each(_)
      Each(kids) == IF kids = <<>> THEN <<>>
                    ELSE walkTree(d, Head(kids)) \o Each(Tail(kids))
  IN <<n>> \o Each(NamedChildren(d, n))

\* ------------------------------------------------------------------------
\* The parser handle.  `parser` is "unset" until `new Parser()` has been
\* assigned, "nolang" when the assignment happened but setLanguage threw, and
\* "ready" after a complete initializeParser.

ParserStates == {"unset", "nolang", "ready"}

\* The outcomes of initializeParser's body: it completes, `new Parser()` throws,
\* or setLanguage throws after the handle has been assigned.
InitOutcomes == {"ok", "throw_new", "throw_setLanguage"}

\* initializeParser: the handle after the call, and whether the call rethrew.
ParserAfterInit(p, outcome) ==
  CASE outcome = "ok" -> "ready"
    [] outcome = "throw_new" -> p
    [] OTHER -> "nolang"

\* A variant of initializeParser whose catch block swallows the error.
initializeParserSwallowing(p, outcome) ==
  [parser |-> ParserAfterInit(p, outcome), threw |-> FALSE]

initializeParser(p, outcome) ==
  [parser |-> ParserAfterInit(p, outcome), threw |-> outcome # "ok"]

NotInitialized == "Error: Parser not initialized"

ParserFailure == "Error: the parser failed"

NullTree == "TypeError: Cannot read properties of undefined (reading 'rootNode')"

ValidatorFailure == "Error: a validator failed"

\* parse(text): throws when the handle is unset; otherwise whatever
\* parser.parse(text) does: it returns the tree of the text, or throws
\* (extFault); a handle without a language throws or returns no tree.
parse(p, extFault, d) ==
  IF p = "unset" THEN [kind |-> "throw", error |-> NotInitialized, doc |-> 0]
  ELSE IF extFault THEN [kind |-> "throw", error |-> ParserFailure, doc |-> 0]
  ELSE IF p = "nolang" THEN [kind |-> "null", error |-> "", doc |-> 0]
  ELSE [kind |-> "tree", error |-> "", doc |-> d]

\* The error a caller raises on the parse result before it can use the tree:
\* the exception of parse itself, or the TypeError of reading rootNode of nothing.
ParseError(pr) ==
  IF pr.kind = "throw" THEN pr.error ELSE IF pr.kind = "null" THEN NullTree ELSE ""

\* ------------------------------------------------------------------------
\* Diagnostics.

Diagnostic(severity, range, message) ==
  [severity |-> severity, range |-> range, message |-> message, source |-> "scrapscript"]

\* A variant of the catch block's diagnostic that reports a warning on the
\* whole first line and drops the reason.
CatchDiagnosticWithoutReason(err) ==
  Diagnostic("Warning", <<0, 0, 1, 0>>, <<"Failed to parse ScrapScript">>)

\* The diagnostic of the catch block of validateScrapScript.
CatchDiagnostic(err) ==
  Diagnostic("Error", <<0, 0, 0, 0>>, <<"Failed to parse ScrapScript: ", err>>)

\* A variant of findErrorNodes that descends through the named children only.
RECURSIVE findErrorNodesNamedOnly(_, _)
findErrorNodesNamedOnly(d, n) ==
  IF NodeRec(d, n).hasError
  THEN (IF NodeType(d, n) = "ERROR" /\ NodeRec(d, n).named THEN <<n>> ELSE <<>>)
       \o Flatten([i \in 1..Len(NamedChildren(d, n)) |-> findErrorNodesNamedOnly(d, NamedChildren(d, n)[i])])
  ELSE <<>>

RECURSIVE findErrorNodes(_, _)
findErrorNodes(d, n) ==
  IF NodeRec(d, n).hasError
  THEN (IF NodeType(d, n) = "ERROR" THEN <<n>> ELSE <<>>)
       \o Flatten([i \in 1..Len(Children(d, n)) |-> findErrorNodes(d, Children(d, n)[i])])
  ELSE <<>>

ErrorMessages ==
  [where |-> <<"Invalid where clause. Expected pattern \"; identifier = expression\"">>,
   declaration |-> <<"Invalid declaration. Expected \"identifier = expression\"">>,
   pattern_match |-> <<"Invalid pattern match. Expected \"| pattern -> expression\"">>,
   function |-> <<"Invalid function. Expected \"parameter -> expression\"">>,
   record |-> <<"Invalid record. Expected \"{ field = value, ... }\"">>,
   list |-> <<"Invalid list. Expected \"[element1, element2, ...]\"">>,
   tag |-> <<"Invalid tag. Expected \"#identifier\"">>,
   infix |-> <<"Invalid infix expression. Expected left operator right">>,
   apply |-> <<"Invalid function application">>]

createDiagnosticForError(d, n) ==
  LET p == Parent(d, n)
      message ==
        IF p = NoNode THEN <<"Syntax error in ", "expression">>
        ELSE IF NodeType(d, p) \in DOMAIN ErrorMessages THEN ErrorMessages[NodeType(d, p)]
        ELSE <<"Syntax error in ", NodeType(d, p)>>
  IN Diagnostic("Error", nodeToRange(d, n), message)

\* A variant of the error-node pass that ignores hasError and the node types
\* and reports the root.
ErrorNodeDiagnosticsOfRoot(d) == <<createDiagnosticForError(d, RootNode(d))>>

\* The error-node diagnostics pushed when the root reports hasError.
ErrorNodeDiagnostics(d) ==
  IF NodeRec(d, RootNode(d)).hasError
  THEN LET errorNodes == findErrorNodes(d, RootNode(d))
       IN [i \in 1..Len(errorNodes) |-> createDiagnosticForError(d, errorNodes[i])]
  ELSE <<>>

\* --- validatePatternMatching

IsCatchAll(d, pattern) ==
  LET patternNode == NamedChild(d, pattern, 0)
  IN /\ patternNode # NoNode
     /\ \/ /\ NodeType(d, patternNode) = "id"
           /\ \/ getNodeText(d, patternNode) = <<"_">>
              \/ StartsLowerCase(getNodeText(d, patternNode))
        \/ NodeType(d, patternNode) = "hole"

PatternMatchingAt(d, n) ==
  IF NodeType(d, n) \in {"match_fun", "pattern_match"}
  THEN LET patterns == SelectSeq(NamedChildren(d, n), LAMBDA c : NodeType(d, c) = "pattern_case")
           hasCatchAll == \E i \in 1..Len(patterns) : IsCatchAll(d, patterns[i])
       IN IF Len(patterns) > 0 /\ ~hasCatchAll
          THEN <<Diagnostic("Warning", nodeToRange(d, n),
                   <<"Pattern match may not be exhaustive. Consider adding a catch-all case like '| _ -> ()'.">>)>>
          ELSE <<>>
  ELSE <<>>

validatePatternMatching(d) ==
  LET w == walkTree(d, RootNode(d))
  IN Flatten([i \in 1..Len(w) |-> PatternMatchingAt(d, w[i])])

\* --- validateTypeConsistency

NoType == "null"

\* A variant of inferBasicType that gives every number the tag int.
inferBasicTypeOfNumbersAlike(d, n) ==
  LET t == NodeType(d, n)
  IN CASE t = "number" -> "int"
       [] t = "text" -> "text"
       [] t = "bytes" -> "bytes"
       [] t = "tag" -> "tag"
       [] t = "list" -> "list"
       [] t = "record" -> "record"
       [] t \in {"fun", "match_fun"} -> "function"
       [] t = "hole" -> "hole"
       [] OTHER -> NoType

inferBasicType(d, n) ==
  LET t == NodeType(d, n)
  IN CASE t = "number" -> (IF Includes(getNodeText(d, n), <<".">>) THEN "float" ELSE "int")
       [] t = "text" -> "text"
       [] t = "bytes" -> "bytes"
       [] t = "tag" -> "tag"
       [] t = "list" -> "list"
       [] t = "record" -> "record"
       [] t \in {"fun", "match_fun"} -> "function"
       [] t = "hole" -> "hole"
       [] OTHER -> NoType

TypeConsistencyAt(d, n) ==
  IF NodeType(d, n) = "list"
  THEN LET elements == NamedChildren(d, n)
           inferred == SelectSeq([i \in 1..Len(elements) |-> inferBasicType(d, elements[i])],
                                 LAMBDA t : t # NoType)
           elementTypes == InsertionOrder(inferred)
       IN IF Len(elementTypes) > 1
          THEN <<Diagnostic("Error", nodeToRange(d, n),
                   <<"List elements must have the same type. Found: ">> \o Join(elementTypes, ", "))>>
          ELSE <<>>
  ELSE <<>>

validateTypeConsistency(d) ==
  LET w == walkTree(d, RootNode(d))
  IN Flatten([i \in 1..Len(w) |-> TypeConsistencyAt(d, w[i])])

\* --- validateWhereClauseStructure

\* A variant of the where-clause check that wants a child after the "=".
WhereClauseAtWithExpression(d, n) ==
  IF NodeType(d, n) = "where"
  THEN LET count == Len(Children(d, n))
           hasProperStructure ==
             \E i \in 0..(count - 1) :
               /\ NodeType(d, Child(d, n, i)) = ";"
               /\ i + 3 < count
               /\ NodeType(d, Child(d, n, i + 1)) = "id"
               /\ NodeType(d, Child(d, n, i + 2)) = "="
       IN IF ~hasProperStructure
          THEN <<Diagnostic("Error", nodeToRange(d, n),
                   <<"Invalid where clause. Expected \"; identifier = expression\"">>)>>
          ELSE <<>>
  ELSE <<>>

WhereClauseAt(d, n) ==
  IF NodeType(d, n) = "where"
  THEN LET count == Len(Children(d, n))
           hasProperStructure ==
             \E i \in 0..(count - 1) :
               /\ NodeType(d, Child(d, n, i)) = ";"
               /\ i + 2 < count
               /\ NodeType(d, Child(d, n, i + 1)) = "id"
               /\ NodeType(d, Child(d, n, i + 2)) = "="
       IN IF ~hasProperStructure
          THEN <<Diagnostic("Error", nodeToRange(d, n),
                   <<"Invalid where clause. Expected \"; identifier = expression\"">>)>>
          ELSE <<>>
  ELSE <<>>

validateWhereClauseStructure(d) ==
  LET w == walkTree(d, RootNode(d))
  IN Flatten([i \in 1..Len(w) |-> WhereClauseAt(d, w[i])])

\* --- validateRecordSyntax

RecordFieldAt(d, field) ==
  IF NodeType(d, field) = "record_field" /\ ~(Len(NamedChildren(d, field)) >= 2)
  THEN <<Diagnostic("Error", nodeToRange(d, field),
           <<"Invalid record field. Expected \"field = value\"">>)>>
  ELSE <<>>

RecordSyntaxAt(d, n) ==
  IF NodeType(d, n) = "record"
  THEN Flatten([i \in 1..Len(NamedChildren(d, n)) |-> RecordFieldAt(d, NamedChildren(d, n)[i])])
  ELSE <<>>

validateRecordSyntax(d) ==
  LET w == walkTree(d, RootNode(d))
  IN Flatten([i \in 1..Len(w) |-> RecordSyntaxAt(d, w[i])])

\* --- validateListSyntax

ListSyntaxAt(d, n) ==
  IF NodeType(d, n) = "list"
  THEN LET text == getNodeText(d, n)
       IN IF \/ Includes(text, <<",", ",">>)
             \/ Includes(text, <<"[", ",">>)
             \/ Includes(text, <<",", "]">>)
          THEN <<Diagnostic("Error", nodeToRange(d, n),
                   <<"Invalid list syntax. Check for extra commas or missing elements.">>)>>
          ELSE <<>>
  ELSE <<>>

validateListSyntax(d) ==
  LET w == walkTree(d, RootNode(d))
  IN Flatten([i \in 1..Len(w) |-> ListSyntaxAt(d, w[i])])

\* --- validateFunctionSyntax

FunctionSyntaxAt(d, n) ==
  IF NodeType(d, n) = "fun"
  THEN IF ~Includes(getNodeText(d, n), <<"-", ">">>)
       THEN <<Diagnostic("Error", nodeToRange(d, n),
                <<"Invalid function syntax. Expected \"parameter -> expression\"">>)>>
       ELSE <<>>
  ELSE <<>>

validateFunctionSyntax(d) ==
  LET w == walkTree(d, RootNode(d))
  IN Flatten([i \in 1..Len(w) |-> FunctionSyntaxAt(d, w[i])])

\* --- the validators in the order validateScrapScript calls them

Validators == <<"pattern", "types", "where", "record", "list", "function">>

ValidatorDiagnostics(d, v) ==
  CASE Validators[v] = "pattern" -> validatePatternMatching(d)
    [] Validators[v] = "types" -> validateTypeConsistency(d)
    [] Validators[v] = "where" -> validateWhereClauseStructure(d)
    [] Validators[v] = "record" -> validateRecordSyntax(d)
    [] Validators[v] = "list" -> validateListSyntax(d)
    [] OTHER -> validateFunctionSyntax(d)

\* An exception inside a validator: validator `at` throws after it has pushed
\* `after` of its diagnostics; at = 0 when no validator throws.
NoFault == [at |-> 0, after |-> 0]

Faults(d) ==
  {NoFault} \cup
  UNION {{[at |-> v, after |-> p] : p \in 0..Len(ValidatorDiagnostics(d, v))} : v \in 1..Len(Validators)}

\* What the validator calls of the try block leave in `diagnostics`: every
\* validator before the throwing one has run, the throwing one has pushed a
\* prefix, and the ones after it are never called.
ValidatorsRun(d, fault) ==
  IF fault.at = 0
  THEN Flatten([v \in 1..Len(Validators) |-> ValidatorDiagnostics(d, v)])
  ELSE Flatten([v \in 1..(fault.at - 1) |-> ValidatorDiagnostics(d, v)])
       \o Slice(ValidatorDiagnostics(d, fault.at), fault.after)

\* validateScrapScript, before the final slice.
Collected(p, extFault, d, fault) ==
  LET pr == parse(p, extFault, d)
  IN IF pr.kind # "tree" THEN <<CatchDiagnostic(ParseError(pr))>>
     ELSE ErrorNodeDiagnostics(d) \o ValidatorsRun(d, fault)
          \o (IF fault.at # 0 THEN <<CatchDiagnostic(ValidatorFailure)>> ELSE <<>>)

validateScrapScript(p, extFault, d, maxNumberOfProblems, fault) ==
  Slice(Collected(p, extFault, d, fault), maxNumberOfProblems)

\* --- the earlier revisions of the validator

EarlierErrorMessages ==
  [where |-> <<"Invalid where declaration. Expected pattern \";\" declaration">>,
   declaration |-> <<"Invalid declaration. Expected pattern \"=\" expression or pattern \":\" id">>,
   infix |-> <<"Invalid infix expression. Expected left op right">>,
   apply |-> <<"Invalid function application">>]

EarlierDiagnosticForError(d, n) ==
  LET p == Parent(d, n)
      message ==
        IF p = NoNode THEN <<"Syntax error in ", "expression">>
        ELSE IF NodeType(d, p) \in DOMAIN EarlierErrorMessages
             THEN EarlierErrorMessages[NodeType(d, p)]
        ELSE <<"Syntax error in ", NodeType(d, p)>>
  IN Diagnostic("Error", nodeToRange(d, n), message)

checkSyntaxErrors(d) ==
  IF NodeRec(d, RootNode(d)).hasError
  THEN LET errorNodes == findErrorNodes(d, RootNode(d))
       IN [i \in 1..Len(errorNodes) |-> EarlierDiagnosticForError(d, errorNodes[i])]
  ELSE <<>>

\* The single-file revision: error nodes only, sliced on return.
validateScrapScriptSingleFile(p, extFault, d, maxNumberOfProblems) ==
  LET pr == parse(p, extFault, d)
      diagnostics == IF pr.kind # "tree" THEN <<CatchDiagnostic(ParseError(pr))>>
                     ELSE checkSyntaxErrors(d)
  IN Slice(diagnostics, maxNumberOfProblems)

\* The validator-module revision: the syntax errors are sliced when pushed, the
\* diagnostic of the catch block is pushed after it, and the array is returned as is.
validateScrapScriptModule(p, extFault, d, maxNumberOfProblems) ==
  LET pr == parse(p, extFault, d)
  IN IF pr.kind # "tree" THEN <<CatchDiagnostic(ParseError(pr))>>
     ELSE Slice(checkSyntaxErrors(d), maxNumberOfProblems)

Revisions == {"enhanced", "single_file", "module"}

Validate(rev, p, extFault, d, k, fault) ==
  CASE rev = "enhanced" -> validateScrapScript(p, extFault, d, k, fault)
    [] rev = "single_file" -> validateScrapScriptSingleFile(p, extFault, d, k)
    [] OTHER -> validateScrapScriptModule(p, extFault, d, k)

\* The operator token catalog.
OPERATORS ==
  << <<"+">>,
     <<"-">>,
     <<"*">>,
     <<"/">>,
     <<"/", "/">>,
     <<"%">>,
     <<"^">>,
     <<"=", "=">>,
     <<"/", "=">>,
     <<"<">>,
     <<">">>,
     <<"<", "=">>,
     <<">", "=">>,
     <<"&", "&">>,
     <<"|", "|">>,
     <<":", ":">>,
     <<"+", "+">>,
     <<">", "+">>,
     <<"+", "<">>,
     <<">", ">">>,
     <<"<", "<">>,
     <<"|", ">">>,
     <<".">>,
     <<"-", ">">>,
     <<"|">>,
     <<":">>,
     <<"?">>,
     <<"!">>,
     <<"'">>,
     <<".", ".">> >>

\* The built-in function catalog.
BUILT_IN_FUNCTIONS ==
  << <<"l", "i", "s", "t", "/", "m", "a", "p">>,
     <<"l", "i", "s", "t", "/", "f", "i", "l", "t", "e", "r">>,
     <<"l", "i", "s", "t", "/", "f", "o", "l", "d">>,
     <<"l", "i", "s", "t", "/", "f", "i", "r", "s", "t">>,
     <<"l", "i", "s", "t", "/", "l", "a", "s", "t">>,
     <<"l", "i", "s", "t", "/", "h", "e", "a", "d">>,
     <<"l", "i", "s", "t", "/", "t", "a", "i", "l">>,
     <<"l", "i", "s", "t", "/", "l", "e", "n", "g", "t", "h">>,
     <<"l", "i", "s", "t", "/", "r", "e", "v", "e", "r", "s", "e">>,
     <<"l", "i", "s", "t", "/", "s", "o", "r", "t">>,
     <<"l", "i", "s", "t", "/", "s", "u", "m">>,
     <<"l", "i", "s", "t", "/", "p", "r", "o", "d", "u", "c", "t">>,
     <<"l", "i", "s", "t", "/", "c", "o", "n", "c", "a", "t">>,
     <<"l", "i", "s", "t", "/", "f", "l", "a", "t", "t", "e", "n">>,
     <<"m", "a", "y", "b", "e", "/", "d", "e", "f", "a", "u", "l", "t">>,
     <<"m", "a", "y", "b", "e", "/", "m", "a", "p">>,
     <<"m", "a", "y", "b", "e", "/", "b", "i", "n", "d">>,
     <<"m", "a", "y", "b", "e", "/", "w", "i", "t", "h", "-", "d", "e", "f", "a", "u", "l", "t">>,
     <<"r", "e", "s", "u", "l", "t", "/", "m", "a", "p">>,
     <<"r", "e", "s", "u", "l", "t", "/", "b", "i", "n", "d">>,
     <<"r", "e", "s", "u", "l", "t", "/", "d", "e", "f", "a", "u", "l", "t">>,
     <<"r", "e", "s", "u", "l", "t", "/", "m", "a", "p", "-", "e", "r", "r", "o", "r">>,
     <<"t", "e", "x", "t", "/", "l", "e", "n", "g", "t", "h">>,
     <<"t", "e", "x", "t", "/", "t", "o", "-", "u", "p", "p", "e", "r">>,
     <<"t", "e", "x", "t", "/", "t", "o", "-", "l", "o", "w", "e", "r">>,
     <<"t", "e", "x", "t", "/", "s", "p", "l", "i", "t">>,
     <<"t", "e", "x", "t", "/", "j", "o", "i", "n">>,
     <<"t", "e", "x", "t", "/", "t", "r", "i", "m">>,
     <<"t", "e", "x", "t", "/", "s", "t", "a", "r", "t", "s", "-", "w", "i", "t", "h">>,
     <<"t", "e", "x", "t", "/", "e", "n", "d", "s", "-", "w", "i", "t", "h">>,
     <<"t", "e", "x", "t", "/", "c", "o", "n", "t", "a", "i", "n", "s">>,
     <<"b", "y", "t", "e", "s", "/", "t", "o", "-", "u", "t", "f", "8", "-", "t", "e", "x", "t">>,
     <<"b", "y", "t", "e", "s", "/", "f", "r", "o", "m", "-", "u", "t", "f", "8", "-", "t", "e", "x", "t">>,
     <<"b", "y", "t", "e", "s", "/", "l", "e", "n", "g", "t", "h">>,
     <<"t", "o", "-", "f", "l", "o", "a", "t">>,
     <<"t", "o", "-", "i", "n", "t">>,
     <<"r", "o", "u", "n", "d">>,
     <<"c", "e", "i", "l">>,
     <<"f", "l", "o", "o", "r">>,
     <<"d", "i", "c", "t", "/", "g", "e", "t">>,
     <<"d", "i", "c", "t", "/", "s", "e", "t">>,
     <<"d", "i", "c", "t", "/", "h", "a", "s">>,
     <<"d", "i", "c", "t", "/", "k", "e", "y", "s">>,
     <<"d", "i", "c", "t", "/", "v", "a", "l", "u", "e", "s">>,
     <<"d", "i", "c", "t", "/", "m", "a", "p">>,
     <<"d", "i", "c", "t", "/", "f", "i", "l", "t", "e", "r">>,
     <<"d", "i", "c", "t", "/", "f", "o", "l", "d">>,
     <<"i", "o", "/", "p", "r", "i", "n", "t">>,
     <<"i", "o", "/", "r", "e", "a", "d">>,
     <<"i", "o", "/", "w", "r", "i", "t", "e">>,
     <<"r", "e", "m", "o", "t", "e", "/", "f", "e", "t", "c", "h">>,
     <<"r", "e", "m", "o", "t", "e", "/", "p", "o", "s", "t">>,
     <<"r", "e", "m", "o", "t", "e", "/", "g", "e", "t">> >>

\* The tag catalog.
COMMON_TAGS ==
  << <<"t", "r", "u", "e">>,
     <<"f", "a", "l", "s", "e">>,
     <<"s", "o", "m", "e">>,
     <<"n", "o", "n", "e">>,
     <<"o", "k">>,
     <<"e", "r", "r", "o", "r">>,
     <<"s", "u", "c", "c", "e", "s", "s">>,
     <<"f", "a", "i", "l", "u", "r", "e">>,
     <<"l", "e", "f", "t">>,
     <<"r", "i", "g", "h", "t">>,
     <<"j", "u", "s", "t">>,
     <<"n", "o", "t", "h", "i", "n", "g">>,
     <<"a", "d", "d">>,
     <<"s", "u", "b">>,
     <<"m", "u", "l">>,
     <<"d", "i", "v">>,
     <<"m", "o", "d">>,
     <<"v", "a", "n", "i", "l", "l", "a">>,
     <<"c", "h", "o", "c", "o", "l", "a", "t", "e">>,
     <<"s", "t", "r", "a", "w", "b", "e", "r", "r", "y">>,
     <<"c", "i", "r", "c", "l", "e">>,
     <<"r", "e", "c", "t", "a", "n", "g", "l", "e">>,
     <<"t", "r", "i", "a", "n", "g", "l", "e">> >>

\* The type-name catalog.
COMMON_TYPES ==
  << <<"i", "n", "t">>,
     <<"f", "l", "o", "a", "t">>,
     <<"t", "e", "x", "t">>,
     <<"b", "y", "t", "e", "s">>,
     <<"b", "o", "o", "l">>,
     <<"l", "i", "s", "t">>,
     <<"r", "e", "c", "o", "r", "d">>,
     <<"f", "u", "n">>,
     <<"m", "a", "y", "b", "e">>,
     <<"r", "e", "s", "u", "l", "t">>,
     <<"r", "e", "m", "o", "t", "e">>,
     <<"p", "l", "a", "t", "f", "o", "r", "m">>,
     <<"d", "i", "c", "t">>,
     <<"a", "r", "r", "a", "y">> >>

\* The reserved keywords: none.
KEYWORDS ==
  << >>

\* The record field names offered after a dot.
commonFields ==
  << <<"n", "a", "m", "e">>,
     <<"i", "d">>,
     <<"v", "a", "l", "u", "e">>,
     <<"t", "y", "p", "e">>,
     <<"d", "a", "t", "a">>,
     <<"r", "e", "s", "u", "l", "t">>,
     <<"s", "t", "a", "t", "u", "s">>,
     <<"m", "e", "s", "s", "a", "g", "e">> >>

\* The module names offered for an import.
modules ==
  << <<"l", "i", "s", "t">>,
     <<"m", "a", "y", "b", "e">>,
     <<"r", "e", "s", "u", "l", "t">>,
     <<"t", "e", "x", "t">>,
     <<"d", "i", "c", "t">>,
     <<"i", "o">>,
     <<"r", "e", "m", "o", "t", "e">>,
     <<"m", "a", "t", "h">>,
     <<"d", "a", "t", "e">>,
     <<"j", "s", "o", "n">>,
     <<"h", "t", "t", "p">>,
     <<"f", "i", "l", "e">> >>

\* getFunctionDocumentation: the documented built-ins.
functionDocs ==
  (<<"l", "i", "s", "t", "/", "m", "a", "p">> :> <<"T", "r", "a", "n", "s", "f", "o", "r", "m", " ", "e", "a", "c", "h", " ", "e", "l", "e", "m", "e", "n", "t", " ", "o", "f", " ", "a", " ", "l", "i", "s", "t", ":", " ", Backtick, "l", "i", "s", "t", "/", "m", "a", "p", " ", ":", " ", "(", "a", " ", "-", ">", " ", "b", ")", " ", "-", ">", " ", "l", "i", "s", "t", " ", "a", " ", "-", ">", " ", "l", "i", "s", "t", " ", "b", Backtick>>) @@
  (<<"l", "i", "s", "t", "/", "f", "i", "l", "t", "e", "r">> :> <<"F", "i", "l", "t", "e", "r", " ", "e", "l", "e", "m", "e", "n", "t", "s", " ", "o", "f", " ", "a", " ", "l", "i", "s", "t", ":", " ", Backtick, "l", "i", "s", "t", "/", "f", "i", "l", "t", "e", "r", " ", ":", " ", "(", "a", " ", "-", ">", " ", "b", "o", "o", "l", ")", " ", "-", ">", " ", "l", "i", "s", "t", " ", "a", " ", "-", ">", " ", "l", "i", "s", "t", " ", "a", Backtick>>) @@
  (<<"l", "i", "s", "t", "/", "f", "o", "l", "d">> :> <<"R", "e", "d", "u", "c", "e", " ", "a", " ", "l", "i", "s", "t", " ", "t", "o", " ", "a", " ", "s", "i", "n", "g", "l", "e", " ", "v", "a", "l", "u", "e", ":", " ", Backtick, "l", "i", "s", "t", "/", "f", "o", "l", "d", " ", ":", " ", "b", " ", "-", ">", " ", "(", "b", " ", "-", ">", " ", "a", " ", "-", ">", " ", "b", ")", " ", "-", ">", " ", "l", "i", "s", "t", " ", "a", " ", "-", ">", " ", "b", Backtick>>) @@
  (<<"l", "i", "s", "t", "/", "h", "e", "a", "d">> :> <<"G", "e", "t", " ", "t", "h", "e", " ", "f", "i", "r", "s", "t", " ", "e", "l", "e", "m", "e", "n", "t", " ", "o", "f", " ", "a", " ", "l", "i", "s", "t", ":", " ", Backtick, "l", "i", "s", "t", "/", "h", "e", "a", "d", " ", ":", " ", "l", "i", "s", "t", " ", "a", " ", "-", ">", " ", "m", "a", "y", "b", "e", " ", "a", Backtick>>) @@
  (<<"l", "i", "s", "t", "/", "t", "a", "i", "l">> :> <<"G", "e", "t", " ", "a", "l", "l", " ", "b", "u", "t", " ", "t", "h", "e", " ", "f", "i", "r", "s", "t", " ", "e", "l", "e", "m", "e", "n", "t", ":", " ", Backtick, "l", "i", "s", "t", "/", "t", "a", "i", "l", " ", ":", " ", "l", "i", "s", "t", " ", "a", " ", "-", ">", " ", "m", "a", "y", "b", "e", " ", "(", "l", "i", "s", "t", " ", "a", ")", Backtick>>) @@
  (<<"m", "a", "y", "b", "e", "/", "d", "e", "f", "a", "u", "l", "t">> :> <<"P", "r", "o", "v", "i", "d", "e", " ", "a", " ", "d", "e", "f", "a", "u", "l", "t", " ", "f", "o", "r", " ", "m", "a", "y", "b", "e", " ", "v", "a", "l", "u", "e", "s", ":", " ", Backtick, "m", "a", "y", "b", "e", "/", "d", "e", "f", "a", "u", "l", "t", " ", ":", " ", "a", " ", "-", ">", " ", "m", "a", "y", "b", "e", " ", "a", " ", "-", ">", " ", "a", Backtick>>) @@
  (<<"r", "e", "s", "u", "l", "t", "/", "m", "a", "p">> :> <<"T", "r", "a", "n", "s", "f", "o", "r", "m", " ", "s", "u", "c", "c", "e", "s", "s", "f", "u", "l", " ", "r", "e", "s", "u", "l", "t", "s", ":", " ", Backtick, "r", "e", "s", "u", "l", "t", "/", "m", "a", "p", " ", ":", " ", "(", "a", " ", "-", ">", " ", "b", ")", " ", "-", ">", " ", "r", "e", "s", "u", "l", "t", " ", "a", " ", "e", " ", "-", ">", " ", "r", "e", "s", "u", "l", "t", " ", "b", " ", "e", Backtick>>) @@
  (<<"t", "e", "x", "t", "/", "s", "p", "l", "i", "t">> :> <<"S", "p", "l", "i", "t", " ", "t", "e", "x", "t", " ", "b", "y", " ", "d", "e", "l", "i", "m", "i", "t", "e", "r", ":", " ", Backtick, "t", "e", "x", "t", "/", "s", "p", "l", "i", "t", " ", ":", " ", "t", "e", "x", "t", " ", "-", ">", " ", "t", "e", "x", "t", " ", "-", ">", " ", "l", "i", "s", "t", " ", "t", "e", "x", "t", Backtick>>) @@
  (<<"t", "o", "-", "f", "l", "o", "a", "t">> :> <<"C", "o", "n", "v", "e", "r", "t", " ", "i", "n", "t", "e", "g", "e", "r", " ", "t", "o", " ", "f", "l", "o", "a", "t", ":", " ", Backtick, "t", "o", "-", "f", "l", "o", "a", "t", " ", ":", " ", "i", "n", "t", " ", "-", ">", " ", "f", "l", "o", "a", "t", Backtick>>)

\* getOperatorDocumentation: the documented operators (headline of each entry).
operatorInfo ==
  (<<"|", ">">> :> <<"*", "*", "P", "i", "p", "e", "l", "i", "n", "e", " ", "o", "p", "e", "r", "a", "t", "o", "r", "*", "*", ":", " ", "p", "a", "s", "s", "e", "s", " ", "t", "h", "e", " ", "l", "e", "f", "t", " ", "v", "a", "l", "u", "e", " ", "t", "o", " ", "t", "h", "e", " ", "f", "u", "n", "c", "t", "i", "o", "n", " ", "o", "n", " ", "t", "h", "e", " ", "r", "i", "g", "h", "t">>) @@
  (<<"=", "=">> :> <<"*", "*", "E", "q", "u", "a", "l", "i", "t", "y", " ", "o", "p", "e", "r", "a", "t", "o", "r", "*", "*", ":", " ", "c", "h", "e", "c", "k", "s", " ", "i", "f", " ", "t", "w", "o", " ", "v", "a", "l", "u", "e", "s", " ", "a", "r", "e", " ", "e", "q", "u", "a", "l">>) @@
  (<<"/", "=">> :> <<"*", "*", "I", "n", "e", "q", "u", "a", "l", "i", "t", "y", " ", "o", "p", "e", "r", "a", "t", "o", "r", "*", "*", ":", " ", "c", "h", "e", "c", "k", "s", " ", "i", "f", " ", "t", "w", "o", " ", "v", "a", "l", "u", "e", "s", " ", "a", "r", "e", " ", "n", "o", "t", " ", "e", "q", "u", "a", "l">>) @@
  (<<"<">> :> <<"*", "*", "L", "e", "s", "s", " ", "t", "h", "a", "n", " ", "o", "p", "e", "r", "a", "t", "o", "r", "*", "*", ":", " ", "n", "u", "m", "e", "r", "i", "c", " ", "c", "o", "m", "p", "a", "r", "i", "s", "o", "n">>) @@
  (<<">">> :> <<"*", "*", "G", "r", "e", "a", "t", "e", "r", " ", "t", "h", "a", "n", " ", "o", "p", "e", "r", "a", "t", "o", "r", "*", "*", ":", " ", "n", "u", "m", "e", "r", "i", "c", " ", "c", "o", "m", "p", "a", "r", "i", "s", "o", "n">>) @@
  (<<"<", "=">> :> <<"*", "*", "L", "e", "s", "s", " ", "t", "h", "a", "n", " ", "o", "r", " ", "e", "q", "u", "a", "l", " ", "o", "p", "e", "r", "a", "t", "o", "r", "*", "*", ":", " ", "n", "u", "m", "e", "r", "i", "c", " ", "c", "o", "m", "p", "a", "r", "i", "s", "o", "n">>) @@
  (<<">", "=">> :> <<"*", "*", "G", "r", "e", "a", "t", "e", "r", " ", "t", "h", "a", "n", " ", "o", "r", " ", "e", "q", "u", "a", "l", " ", "o", "p", "e", "r", "a", "t", "o", "r", "*", "*", ":", " ", "n", "u", "m", "e", "r", "i", "c", " ", "c", "o", "m", "p", "a", "r", "i", "s", "o", "n">>) @@
  (<<"*">> :> <<"*", "*", "M", "u", "l", "t", "i", "p", "l", "i", "c", "a", "t", "i", "o", "n", " ", "o", "p", "e", "r", "a", "t", "o", "r", "*", "*", ":", " ", "m", "u", "l", "t", "i", "p", "l", "y", " ", "t", "w", "o", " ", "n", "u", "m", "b", "e", "r", "s">>) @@
  (<<"/">> :> <<"*", "*", "D", "i", "v", "i", "s", "i", "o", "n", " ", "o", "p", "e", "r", "a", "t", "o", "r", "*", "*", ":", " ", "d", "i", "v", "i", "d", "e", " ", "t", "w", "o", " ", "n", "u", "m", "b", "e", "r", "s">>) @@
  (<<"/", "/">> :> <<"*", "*", "I", "n", "t", "e", "g", "e", "r", " ", "d", "i", "v", "i", "s", "i", "o", "n", " ", "o", "p", "e", "r", "a", "t", "o", "r", "*", "*", ":", " ", "d", "i", "v", "i", "d", "e", " ", "a", "n", "d", " ", "t", "r", "u", "n", "c", "a", "t", "e", " ", "t", "o", " ", "i", "n", "t", "e", "g", "e", "r">>) @@
  (<<"%">> :> <<"*", "*", "M", "o", "d", "u", "l", "o", " ", "o", "p", "e", "r", "a", "t", "o", "r", "*", "*", ":", " ", "r", "e", "m", "a", "i", "n", "d", "e", "r", " ", "a", "f", "t", "e", "r", " ", "d", "i", "v", "i", "s", "i", "o", "n">>) @@
  (<<"+">> :> <<"*", "*", "A", "d", "d", "i", "t", "i", "o", "n", " ", "o", "p", "e", "r", "a", "t", "o", "r", "*", "*", ":", " ", "a", "d", "d", " ", "t", "w", "o", " ", "n", "u", "m", "b", "e", "r", "s", " ", "o", "r", " ", "c", "o", "n", "c", "a", "t", "e", "n", "a", "t", "e">>) @@
  (<<"-">> :> <<"*", "*", "S", "u", "b", "t", "r", "a", "c", "t", "i", "o", "n", " ", "o", "p", "e", "r", "a", "t", "o", "r", "*", "*", ":", " ", "s", "u", "b", "t", "r", "a", "c", "t", " ", "t", "w", "o", " ", "n", "u", "m", "b", "e", "r", "s">>) @@
  (<<"&", "&">> :> <<"*", "*", "L", "o", "g", "i", "c", "a", "l", " ", "A", "N", "D", " ", "o", "p", "e", "r", "a", "t", "o", "r", "*", "*", ":", " ", "b", "o", "o", "l", "e", "a", "n", " ", "A", "N", "D">>) @@
  (<<"|", "|">> :> <<"*", "*", "L", "o", "g", "i", "c", "a", "l", " ", "O", "R", " ", "o", "p", "e", "r", "a", "t", "o", "r", "*", "*", ":", " ", "b", "o", "o", "l", "e", "a", "n", " ", "O", "R">>) @@
  (<<":", ":">> :> <<"*", "*", "C", "o", "n", "s", " ", "o", "p", "e", "r", "a", "t", "o", "r", "*", "*", ":", " ", "a", "d", "d", " ", "e", "l", "e", "m", "e", "n", "t", " ", "t", "o", " ", "f", "r", "o", "n", "t", " ", "o", "f", " ", "l", "i", "s", "t">>) @@
  (<<"+", "+">> :> <<"*", "*", "C", "o", "n", "c", "a", "t", "e", "n", "a", "t", "i", "o", "n", " ", "o", "p", "e", "r", "a", "t", "o", "r", "*", "*", ":", " ", "j", "o", "i", "n", " ", "l", "i", "s", "t", "s", " ", "o", "r", " ", "t", "e", "x", "t">>) @@
  (<<">", "+">> :> <<"*", "*", "C", "o", "n", "s", " ", "p", "a", "t", "t", "e", "r", "n", " ", "o", "p", "e", "r", "a", "t", "o", "r", "*", "*", ":", " ", "d", "e", "s", "t", "r", "u", "c", "t", "u", "r", "e", " ", "l", "i", "s", "t", " ", "i", "n", " ", "p", "a", "t", "t", "e", "r", "n", "s">>) @@
  (<<"+", "<">> :> <<"*", "*", "A", "p", "p", "e", "n", "d", " ", "o", "p", "e", "r", "a", "t", "o", "r", "*", "*", ":", " ", "a", "d", "d", " ", "e", "l", "e", "m", "e", "n", "t", " ", "t", "o", " ", "e", "n", "d", " ", "o", "f", " ", "l", "i", "s", "t">>) @@
  (<<".", ".">> :> <<"*", "*", "R", "a", "n", "g", "e", " ", "o", "p", "e", "r", "a", "t", "o", "r", "*", "*", ":", " ", "c", "r", "e", "a", "t", "e", " ", "r", "a", "n", "g", "e", "s">>) @@
  (<<".">> :> <<"*", "*", "R", "e", "c", "o", "r", "d", " ", "f", "i", "e", "l", "d", " ", "e", "x", "t", "r", "a", "c", "t", "i", "o", "n", "*", "*", ":", " ", "e", "x", "t", "r", "a", "c", "t", " ", "f", "i", "e", "l", "d", " ", "f", "r", "o", "m", " ", "r", "e", "c", "o", "r", "d">>) @@
  (<<">", ">">> :> <<"*", "*", "F", "u", "n", "c", "t", "i", "o", "n", " ", "c", "o", "m", "p", "o", "s", "i", "t", "i", "o", "n", " ", "(", "r", "i", "g", "h", "t", " ", "t", "o", " ", "l", "e", "f", "t", ")", "*", "*", ":", " ", "c", "o", "m", "p", "o", "s", "e", " ", "f", "u", "n", "c", "t", "i", "o", "n", "s">>) @@
  (<<"<", "<">> :> <<"*", "*", "F", "u", "n", "c", "t", "i", "o", "n", " ", "c", "o", "m", "p", "o", "s", "i", "t", "i", "o", "n", " ", "(", "l", "e", "f", "t", " ", "t", "o", " ", "r", "i", "g", "h", "t", ")", "*", "*", ":", " ", "c", "o", "m", "p", "o", "s", "e", " ", "f", "u", "n", "c", "t", "i", "o", "n", "s">>) @@
  (<<"^">> :> <<"*", "*", "E", "x", "p", "o", "n", "e", "n", "t", "i", "a", "t", "i", "o", "n", " ", "o", "p", "e", "r", "a", "t", "o", "r", "*", "*", ":", " ", "r", "a", "i", "s", "e", " ", "t", "o", " ", "p", "o", "w", "e", "r">>) @@
  (<<"'">> :> <<"*", "*", "A", "p", "p", "l", "y", " ", "o", "p", "e", "r", "a", "t", "o", "r", "*", "*", ":", " ", "f", "u", "n", "c", "t", "i", "o", "n", " ", "a", "p", "p", "l", "i", "c", "a", "t", "i", "o", "n">>) @@
  (<<":">> :> <<"*", "*", "T", "y", "p", "e", " ", "a", "n", "n", "o", "t", "a", "t", "i", "o", "n", " ", "o", "p", "e", "r", "a", "t", "o", "r", "*", "*", ":", " ", "s", "p", "e", "c", "i", "f", "y", " ", "t", "y", "p", "e", "s">>) @@
  (<<"?">> :> <<"*", "*", "G", "u", "a", "r", "d", " ", "o", "p", "e", "r", "a", "t", "o", "r", "*", "*", ":", " ", "c", "o", "n", "d", "i", "t", "i", "o", "n", "a", "l", " ", "i", "n", " ", "p", "a", "t", "t", "e", "r", "n", "s">>) @@
  (<<"!">> :> <<"*", "*", "F", "o", "r", "c", "e", " ", "u", "n", "w", "r", "a", "p", " ", "o", "p", "e", "r", "a", "t", "o", "r", "*", "*", ":", " ", "e", "x", "t", "r", "a", "c", "t", " ", "f", "r", "o", "m", " ", "m", "a", "y", "b", "e", "/", "r", "e", "s", "u", "l", "t">>) @@
  (<<";">> :> <<"*", "*", "W", "h", "e", "r", "e", " ", "c", "l", "a", "u", "s", "e", " ", "o", "r", " ", "f", "i", "e", "l", "d", " ", "a", "c", "c", "e", "s", "s", "*", "*", ":", " ", "d", "e", "f", "i", "n", "e", " ", "v", "a", "r", "i", "a", "b", "l", "e", "s", " ", "o", "r", " ", "a", "c", "c", "e", "s", "s", " ", "f", "i", "e", "l", "d", "s">>) @@
  (<<"-", ">">> :> <<"*", "*", "F", "u", "n", "c", "t", "i", "o", "n", " ", "a", "r", "r", "o", "w", "*", "*", ":", " ", "c", "r", "e", "a", "t", "e", " ", "f", "u", "n", "c", "t", "i", "o", "n", "s", " ", "o", "r", " ", "p", "a", "t", "t", "e", "r", "n", " ", "c", "a", "s", "e", "s">>) @@
  (<<"|">> :> <<"*", "*", "P", "a", "t", "t", "e", "r", "n", " ", "c", "a", "s", "e", " ", "s", "e", "p", "a", "r", "a", "t", "o", "r", "*", "*", ":", " ", "s", "e", "p", "a", "r", "a", "t", "e", " ", "p", "a", "t", "t", "e", "r", "n", " ", "m", "a", "t", "c", "h", "i", "n", "g", " ", "c", "a", "s", "e", "s">>)

\* getIdentifierHover: the documented identifiers (headline of each entry).
builtInInfo ==
  (<<"t", "r", "u", "e">> :> <<"*", "*", Backtick, "t", "r", "u", "e", Backtick, "*", "*", " ", "-", " ", "B", "o", "o", "l", "e", "a", "n", " ", "c", "o", "n", "s", "t", "a", "n", "t", " ", "r", "e", "p", "r", "e", "s", "e", "n", "t", "i", "n", "g", " ", "t", "r", "u", "e">>) @@
  (<<"f", "a", "l", "s", "e">> :> <<"*", "*", Backtick, "f", "a", "l", "s", "e", Backtick, "*", "*", " ", "-", " ", "B", "o", "o", "l", "e", "a", "n", " ", "c", "o", "n", "s", "t", "a", "n", "t", " ", "r", "e", "p", "r", "e", "s", "e", "n", "t", "i", "n", "g", " ", "f", "a", "l", "s", "e">>) @@
  (<<"l", "i", "s", "t", "/", "m", "a", "p">> :> <<"*", "*", Backtick, "l", "i", "s", "t", "/", "m", "a", "p", Backtick, "*", "*", " ", "-", " ", "T", "r", "a", "n", "s", "f", "o", "r", "m", " ", "e", "a", "c", "h", " ", "e", "l", "e", "m", "e", "n", "t", " ", "o", "f", " ", "a", " ", "c", "o", "l", "l", "e", "c", "t", "i", "o", "n">>) @@
  (<<"l", "i", "s", "t", "/", "f", "i", "l", "t", "e", "r">> :> <<"*", "*", Backtick, "l", "i", "s", "t", "/", "f", "i", "l", "t", "e", "r", Backtick, "*", "*", " ", "-", " ", "F", "i", "l", "t", "e", "r", " ", "e", "l", "e", "m", "e", "n", "t", "s", " ", "o", "f", " ", "a", " ", "c", "o", "l", "l", "e", "c", "t", "i", "o", "n">>) @@
  (<<"l", "i", "s", "t", "/", "f", "o", "l", "d">> :> <<"*", "*", Backtick, "l", "i", "s", "t", "/", "f", "o", "l", "d", Backtick, "*", "*", " ", "-", " ", "R", "e", "d", "u", "c", "e", " ", "a", " ", "c", "o", "l", "l", "e", "c", "t", "i", "o", "n", " ", "t", "o", " ", "a", " ", "s", "i", "n", "g", "l", "e", " ", "v", "a", "l", "u", "e">>) @@
  (<<"l", "i", "s", "t", "/", "h", "e", "a", "d">> :> <<"*", "*", Backtick, "l", "i", "s", "t", "/", "h", "e", "a", "d", Backtick, "*", "*", " ", "-", " ", "G", "e", "t", " ", "t", "h", "e", " ", "f", "i", "r", "s", "t", " ", "e", "l", "e", "m", "e", "n", "t">>) @@
  (<<"l", "i", "s", "t", "/", "t", "a", "i", "l">> :> <<"*", "*", Backtick, "l", "i", "s", "t", "/", "t", "a", "i", "l", Backtick, "*", "*", " ", "-", " ", "G", "e", "t", " ", "a", "l", "l", " ", "b", "u", "t", " ", "t", "h", "e", " ", "f", "i", "r", "s", "t", " ", "e", "l", "e", "m", "e", "n", "t">>) @@
  (<<"l", "i", "s", "t", "/", "l", "e", "n", "g", "t", "h">> :> <<"*", "*", Backtick, "l", "i", "s", "t", "/", "l", "e", "n", "g", "t", "h", Backtick, "*", "*", " ", "-", " ", "G", "e", "t", " ", "t", "h", "e", " ", "n", "u", "m", "b", "e", "r", " ", "o", "f", " ", "e", "l", "e", "m", "e", "n", "t", "s">>) @@
  (<<"m", "a", "y", "b", "e", "/", "d", "e", "f", "a", "u", "l", "t">> :> <<"*", "*", Backtick, "m", "a", "y", "b", "e", "/", "d", "e", "f", "a", "u", "l", "t", Backtick, "*", "*", " ", "-", " ", "P", "r", "o", "v", "i", "d", "e", " ", "a", " ", "d", "e", "f", "a", "u", "l", "t", " ", "f", "o", "r", " ", "m", "a", "y", "b", "e", " ", "v", "a", "l", "u", "e", "s">>) @@
  (<<"m", "a", "y", "b", "e", "/", "m", "a", "p">> :> <<"*", "*", Backtick, "m", "a", "y", "b", "e", "/", "m", "a", "p", Backtick, "*", "*", " ", "-", " ", "T", "r", "a", "n", "s", "f", "o", "r", "m", " ", "m", "a", "y", "b", "e", " ", "v", "a", "l", "u", "e", "s">>) @@
  (<<"m", "a", "y", "b", "e", "/", "b", "i", "n", "d">> :> <<"*", "*", Backtick, "m", "a", "y", "b", "e", "/", "b", "i", "n", "d", Backtick, "*", "*", " ", "-", " ", "C", "h", "a", "i", "n", " ", "m", "a", "y", "b", "e", " ", "c", "o", "m", "p", "u", "t", "a", "t", "i", "o", "n", "s">>) @@
  (<<"r", "e", "s", "u", "l", "t", "/", "m", "a", "p">> :> <<"*", "*", Backtick, "r", "e", "s", "u", "l", "t", "/", "m", "a", "p", Backtick, "*", "*", " ", "-", " ", "T", "r", "a", "n", "s", "f", "o", "r", "m", " ", "s", "u", "c", "c", "e", "s", "s", "f", "u", "l", " ", "r", "e", "s", "u", "l", "t", "s">>) @@
  (<<"r", "e", "s", "u", "l", "t", "/", "b", "i", "n", "d">> :> <<"*", "*", Backtick, "r", "e", "s", "u", "l", "t", "/", "b", "i", "n", "d", Backtick, "*", "*", " ", "-", " ", "C", "h", "a", "i", "n", " ", "r", "e", "s", "u", "l", "t", " ", "c", "o", "m", "p", "u", "t", "a", "t", "i", "o", "n", "s">>) @@
  (<<"t", "e", "x", "t", "/", "l", "e", "n", "g", "t", "h">> :> <<"*", "*", Backtick, "t", "e", "x", "t", "/", "l", "e", "n", "g", "t", "h", Backtick, "*", "*", " ", "-", " ", "G", "e", "t", " ", "t", "e", "x", "t", " ", "l", "e", "n", "g", "t", "h">>) @@
  (<<"t", "e", "x", "t", "/", "s", "p", "l", "i", "t">> :> <<"*", "*", Backtick, "t", "e", "x", "t", "/", "s", "p", "l", "i", "t", Backtick, "*", "*", " ", "-", " ", "S", "p", "l", "i", "t", " ", "t", "e", "x", "t", " ", "b", "y", " ", "d", "e", "l", "i", "m", "i", "t", "e", "r">>) @@
  (<<"t", "e", "x", "t", "/", "j", "o", "i", "n">> :> <<"*", "*", Backtick, "t", "e", "x", "t", "/", "j", "o", "i", "n", Backtick, "*", "*", " ", "-", " ", "J", "o", "i", "n", " ", "t", "e", "x", "t", " ", "w", "i", "t", "h", " ", "s", "e", "p", "a", "r", "a", "t", "o", "r">>) @@
  (<<"t", "o", "-", "f", "l", "o", "a", "t">> :> <<"*", "*", Backtick, "t", "o", "-", "f", "l", "o", "a", "t", Backtick, "*", "*", " ", "-", " ", "C", "o", "n", "v", "e", "r", "t", " ", "i", "n", "t", "e", "g", "e", "r", " ", "t", "o", " ", "f", "l", "o", "a", "t">>) @@
  (<<"t", "o", "-", "i", "n", "t">> :> <<"*", "*", Backtick, "t", "o", "-", "i", "n", "t", Backtick, "*", "*", " ", "-", " ", "C", "o", "n", "v", "e", "r", "t", " ", "f", "l", "o", "a", "t", " ", "t", "o", " ", "i", "n", "t", "e", "g", "e", "r", " ", "(", "t", "r", "u", "n", "c", "a", "t", "e", ")">>) @@
  (<<"r", "o", "u", "n", "d">> :> <<"*", "*", Backtick, "r", "o", "u", "n", "d", Backtick, "*", "*", " ", "-", " ", "R", "o", "u", "n", "d", " ", "f", "l", "o", "a", "t", " ", "t", "o", " ", "n", "e", "a", "r", "e", "s", "t", " ", "i", "n", "t", "e", "g", "e", "r">>) @@
  (<<"c", "e", "i", "l">> :> <<"*", "*", Backtick, "c", "e", "i", "l", Backtick, "*", "*", " ", "-", " ", "R", "o", "u", "n", "d", " ", "f", "l", "o", "a", "t", " ", "u", "p", " ", "t", "o", " ", "i", "n", "t", "e", "g", "e", "r">>) @@
  (<<"f", "l", "o", "o", "r">> :> <<"*", "*", Backtick, "f", "l", "o", "o", "r", Backtick, "*", "*", " ", "-", " ", "R", "o", "u", "n", "d", " ", "f", "l", "o", "a", "t", " ", "d", "o", "w", "n", " ", "t", "o", " ", "i", "n", "t", "e", "g", "e", "r">>) @@
  (<<"b", "y", "t", "e", "s", "/", "t", "o", "-", "u", "t", "f", "8", "-", "t", "e", "x", "t">> :> <<"*", "*", Backtick, "b", "y", "t", "e", "s", "/", "t", "o", "-", "u", "t", "f", "8", "-", "t", "e", "x", "t", Backtick, "*", "*", " ", "-", " ", "C", "o", "n", "v", "e", "r", "t", " ", "b", "y", "t", "e", "s", " ", "t", "o", " ", "U", "T", "F", "-", "8", " ", "t", "e", "x", "t">>) @@
  (<<"b", "y", "t", "e", "s", "/", "f", "r", "o", "m", "-", "u", "t", "f", "8", "-", "t", "e", "x", "t">> :> <<"*", "*", Backtick, "b", "y", "t", "e", "s", "/", "f", "r", "o", "m", "-", "u", "t", "f", "8", "-", "t", "e", "x", "t", Backtick, "*", "*", " ", "-", " ", "C", "o", "n", "v", "e", "r", "t", " ", "U", "T", "F", "-", "8", " ", "t", "e", "x", "t", " ", "t", "o", " ", "b", "y", "t", "e", "s">>)

\* getTagHover: the documented tags (headline of each entry).
tagInfo ==
  (<<"t", "r", "u", "e">> :> <<"*", "*", Backtick, "#", "t", "r", "u", "e", Backtick, "*", "*", " ", "-", " ", "B", "o", "o", "l", "e", "a", "n", " ", "t", "r", "u", "e", " ", "t", "a", "g">>) @@
  (<<"f", "a", "l", "s", "e">> :> <<"*", "*", Backtick, "#", "f", "a", "l", "s", "e", Backtick, "*", "*", " ", "-", " ", "B", "o", "o", "l", "e", "a", "n", " ", "f", "a", "l", "s", "e", " ", "t", "a", "g">>) @@
  (<<"s", "o", "m", "e">> :> <<"*", "*", Backtick, "#", "s", "o", "m", "e", Backtick, "*", "*", " ", "-", " ", "O", "p", "t", "i", "o", "n", " ", "t", "y", "p", "e", " ", "t", "a", "g", " ", "f", "o", "r", " ", "e", "x", "i", "s", "t", "i", "n", "g", " ", "v", "a", "l", "u", "e", "s">>) @@
  (<<"n", "o", "n", "e">> :> <<"*", "*", Backtick, "#", "n", "o", "n", "e", Backtick, "*", "*", " ", "-", " ", "O", "p", "t", "i", "o", "n", " ", "t", "y", "p", "e", " ", "t", "a", "g", " ", "f", "o", "r", " ", "m", "i", "s", "s", "i", "n", "g", " ", "v", "a", "l", "u", "e", "s">>) @@
  (<<"o", "k">> :> <<"*", "*", Backtick, "#", "o", "k", Backtick, "*", "*", " ", "-", " ", "R", "e", "s", "u", "l", "t", " ", "t", "y", "p", "e", " ", "t", "a", "g", " ", "f", "o", "r", " ", "s", "u", "c", "c", "e", "s", "s", "f", "u", "l", " ", "o", "p", "e", "r", "a", "t", "i", "o", "n", "s">>) @@
  (<<"e", "r", "r", "o", "r">> :> <<"*", "*", Backtick, "#", "e", "r", "r", "o", "r", Backtick, "*", "*", " ", "-", " ", "R", "e", "s", "u", "l", "t", " ", "t", "y", "p", "e", " ", "t", "a", "g", " ", "f", "o", "r", " ", "f", "a", "i", "l", "e", "d", " ", "o", "p", "e", "r", "a", "t", "i", "o", "n", "s">>) @@
  (<<"j", "u", "s", "t">> :> <<"*", "*", Backtick, "#", "j", "u", "s", "t", Backtick, "*", "*", " ", "-", " ", "M", "a", "y", "b", "e", " ", "t", "y", "p", "e", " ", "t", "a", "g", " ", "f", "o", "r", " ", "e", "x", "i", "s", "t", "i", "n", "g", " ", "v", "a", "l", "u", "e", "s">>) @@
  (<<"n", "o", "t", "h", "i", "n", "g">> :> <<"*", "*", Backtick, "#", "n", "o", "t", "h", "i", "n", "g", Backtick, "*", "*", " ", "-", " ", "M", "a", "y", "b", "e", " ", "t", "y", "p", "e", " ", "t", "a", "g", " ", "f", "o", "r", " ", "m", "i", "s", "s", "i", "n", "g", " ", "v", "a", "l", "u", "e", "s">>) @@
  (<<"l", "e", "f", "t">> :> <<"*", "*", Backtick, "#", "l", "e", "f", "t", Backtick, "*", "*", " ", "-", " ", "E", "i", "t", "h", "e", "r", " ", "t", "y", "p", "e", " ", "t", "a", "g", " ", "f", "o", "r", " ", "l", "e", "f", "t", " ", "v", "a", "l", "u", "e">>) @@
  (<<"r", "i", "g", "h", "t">> :> <<"*", "*", Backtick, "#", "r", "i", "g", "h", "t", Backtick, "*", "*", " ", "-", " ", "E", "i", "t", "h", "e", "r", " ", "t", "y", "p", "e", " ", "t", "a", "g", " ", "f", "o", "r", " ", "r", "i", "g", "h", "t", " ", "v", "a", "l", "u", "e">>) @@
  (<<"s", "u", "c", "c", "e", "s", "s">> :> <<"*", "*", Backtick, "#", "s", "u", "c", "c", "e", "s", "s", Backtick, "*", "*", " ", "-", " ", "S", "u", "c", "c", "e", "s", "s", " ", "t", "a", "g">>) @@
  (<<"f", "a", "i", "l", "u", "r", "e">> :> <<"*", "*", Backtick, "#", "f", "a", "i", "l", "u", "r", "e", Backtick, "*", "*", " ", "-", " ", "F", "a", "i", "l", "u", "r", "e", " ", "t", "a", "g">>) @@
  (<<"a", "d", "d">> :> <<"*", "*", Backtick, "#", "a", "d", "d", Backtick, "*", "*", " ", "-", " ", "A", "d", "d", "i", "t", "i", "o", "n", " ", "o", "p", "e", "r", "a", "t", "i", "o", "n", " ", "t", "a", "g">>) @@
  (<<"s", "u", "b">> :> <<"*", "*", Backtick, "#", "s", "u", "b", Backtick, "*", "*", " ", "-", " ", "S", "u", "b", "t", "r", "a", "c", "t", "i", "o", "n", " ", "o", "p", "e", "r", "a", "t", "i", "o", "n", " ", "t", "a", "g">>) @@
  (<<"m", "u", "l">> :> <<"*", "*", Backtick, "#", "m", "u", "l", Backtick, "*", "*", " ", "-", " ", "M", "u", "l", "t", "i", "p", "l", "i", "c", "a", "t", "i", "o", "n", " ", "o", "p", "e", "r", "a", "t", "i", "o", "n", " ", "t", "a", "g">>) @@
  (<<"d", "i", "v">> :> <<"*", "*", Backtick, "#", "d", "i", "v", Backtick, "*", "*", " ", "-", " ", "D", "i", "v", "i", "s", "i", "o", "n", " ", "o", "p", "e", "r", "a", "t", "i", "o", "n", " ", "t", "a", "g">>)

\* getPatternMatchCompletions: the labels of the pattern snippets.
patternLabels ==
  << <<"b", "a", "s", "i", "c", " ", "p", "a", "t", "t", "e", "r", "n">>,
     <<"c", "a", "t", "c", "h", "-", "a", "l", "l">>,
     <<"e", "m", "p", "t", "y", " ", "l", "i", "s", "t">>,
     <<"l", "i", "s", "t", " ", "h", "e", "a", "d", "+", "t", "a", "i", "l">>,
     <<"l", "i", "s", "t", " ", "e", "l", "e", "m", "e", "n", "t", "s">>,
     <<"r", "e", "c", "o", "r", "d", " ", "p", "a", "t", "t", "e", "r", "n">>,
     <<"t", "a", "g", " ", "p", "a", "t", "t", "e", "r", "n">>,
     <<"g", "u", "a", "r", "d", " ", "p", "a", "t", "t", "e", "r", "n">>,
     <<"n", "u", "m", "b", "e", "r", " ", "p", "a", "t", "t", "e", "r", "n">>,
     <<"t", "e", "x", "t", " ", "p", "a", "t", "t", "e", "r", "n">> >>

\* getPatternMatchCompletions: the inserted texts of the pattern snippets.
patternInsertTexts ==
  << <<"|", " ", "$", "{", "1", ":", "p", "a", "t", "t", "e", "r", "n", "}", " ", "-", ">", " ", "$", "{", "2", ":", "e", "x", "p", "r", "e", "s", "s", "i", "o", "n", "}">>,
     <<"|", " ", "_", " ", "-", ">", " ", "$", "{", "1", ":", "d", "e", "f", "a", "u", "l", "t", "}">>,
     <<"|", " ", "[", "]", " ", "-", ">", " ", "$", "{", "1", ":", "e", "m", "p", "t", "y", "_", "c", "a", "s", "e", "}">>,
     <<"|", " ", "$", "{", "1", ":", "h", "e", "a", "d", "}", " ", ">", "+", " ", "$", "{", "2", ":", "t", "a", "i", "l", "}", " ", "-", ">", " ", "$", "{", "3", ":", "e", "x", "p", "r", "e", "s", "s", "i", "o", "n", "}">>,
     <<"|", " ", "[", " ", "$", "{", "1", ":", "e", "l", "e", "m", "e", "n", "t", "s", "}", " ", "]", " ", "-", ">", " ", "$", "{", "2", ":", "e", "x", "p", "r", "e", "s", "s", "i", "o", "n", "}">>,
     <<"|", " ", "{", " ", "$", "{", "1", ":", "f", "i", "e", "l", "d", "s", "}", " ", "}", " ", "-", ">", " ", "$", "{", "2", ":", "e", "x", "p", "r", "e", "s", "s", "i", "o", "n", "}">>,
     <<"|", " ", "#", "$", "{", "1", ":", "t", "a", "g", "}", " ", "$", "{", "2", ":", "v", "a", "l", "u", "e", "}", " ", "-", ">", " ", "$", "{", "3", ":", "e", "x", "p", "r", "e", "s", "s", "i", "o", "n", "}">>,
     <<"|", " ", "$", "{", "1", ":", "p", "a", "t", "t", "e", "r", "n", "}", " ", "?", " ", "$", "{", "2", ":", "c", "o", "n", "d", "i", "t", "i", "o", "n", "}", " ", "-", ">", " ", "$", "{", "3", ":", "e", "x", "p", "r", "e", "s", "s", "i", "o", "n", "}">>,
     <<"|", " ", "$", "{", "1", ":", "0", "}", " ", "-", ">", " ", "$", "{", "2", ":", "e", "x", "p", "r", "e", "s", "s", "i", "o", "n", "}">>,
     <<"|", " ", "\"", "$", "{", "1", ":", "t", "e", "x", "t", "}", "\"", " ", "-", ">", " ", "$", "{", "2", ":", "e", "x", "p", "r", "e", "s", "s", "i", "o", "n", "}">> >>

\* ------------------------------------------------------------------------
\* The outcome of a call of an exported function or of a request handler: it
\* returns a value (diagnostics, completion items, a hover or null, a tree,
\* another value or nothing) or it throws.

NoHover == [null |-> TRUE, value |-> <<>>]

HoverOf(value) == [null |-> FALSE, value |-> value]

Outcome(status, error, diags, items, hover, tree, value) ==
  [status |-> status, error |-> error, diags |-> diags, items |-> items,
   hover |-> hover, tree |-> tree, value |-> value]

NoOutcome == Outcome("none", "", <<>>, <<>>, NoHover, 0, <<>>)

ReturnedVoid == Outcome("return", "", <<>>, <<>>, NoHover, 0, <<>>)

ReturnedDiagnostics(diags) == Outcome("return", "", diags, <<>>, NoHover, 0, <<>>)

ReturnedItems(items) == Outcome("return", "", <<>>, items, NoHover, 0, <<>>)

ReturnedHover(hover) == Outcome("return", "", <<>>, <<>>, hover, 0, <<>>)

\* parse returned: the tree of document d, or no tree (d = 0).
ReturnedTree(d) == Outcome("return", "", <<>>, <<>>, NoHover, d, <<>>)

\* The value of getDocumentSymbols, findReferences, prepareRename or executeRename.
ReturnedValue(value) == Outcome("return", "", <<>>, <<>>, NoHover, 0, value)

Thrown(err) == Outcome("throw", err, <<>>, <<>>, NoHover, 0, <<>>)

\* ------------------------------------------------------------------------
\* Completion.

InTable(table, key) == key \in DOMAIN table

\* A completion item; insertText is <<>> when the item has none.  The fields
\* insertTextFormat and sortText are not modelled.
Item(label, kind, detail, documentation, insertText) ==
  [label |-> label, kind |-> kind, detail |-> detail,
   documentation |-> documentation, insertText |-> insertText]

\* The text before the first "/" of a built-in's name (func.split("/")[0]).
RECURSIVE ModuleOf(_)
ModuleOf(func) ==
  IF func = <<>> \/ Head(func) = "/" THEN <<>> ELSE <<Head(func)>> \o ModuleOf(Tail(func))

getFunctionDocumentation(func) ==
  IF InTable(functionDocs, func) THEN functionDocs[func]
  ELSE <<"B", "u", "i", "l", "t", "-", "i", "n", " ", "f", "u", "n", "c", "t", "i", "o", "n", ":", " ">> \o func

getOperatorDocumentation(op) ==
  IF InTable(operatorInfo, op) THEN operatorInfo[op]
  ELSE <<"O", "p", "e", "r", "a", "t", "o", "r", ":", " ">> \o op

getTagCompletions ==
  [i \in 1..Len(COMMON_TAGS) |->
     Item(COMMON_TAGS[i], "EnumMember", <<"T", "a", "g">>, <<"B", "u", "i", "l", "t", "-", "i", "n", " ", "t", "a", "g", ":", " ", "#">> \o COMMON_TAGS[i], COMMON_TAGS[i])]

getFunctionCompletions ==
  [i \in 1..Len(BUILT_IN_FUNCTIONS) |->
     Item(BUILT_IN_FUNCTIONS[i], "Function", ModuleOf(BUILT_IN_FUNCTIONS[i]) \o <<" ", "f", "u", "n", "c", "t", "i", "o", "n">>,
          getFunctionDocumentation(BUILT_IN_FUNCTIONS[i]), <<>>)]

getOperatorCompletions ==
  [i \in 1..Len(OPERATORS) |->
     Item(OPERATORS[i], "Operator", <<"O", "p", "e", "r", "a", "t", "o", "r">>, getOperatorDocumentation(OPERATORS[i]), <<>>)]

getTypeCompletions ==
  [i \in 1..Len(COMMON_TYPES) |->
     Item(COMMON_TYPES[i], "TypeParameter", <<"T", "y", "p", "e">>, <<"B", "u", "i", "l", "t", "-", "i", "n", " ", "t", "y", "p", "e", ":", " ">> \o COMMON_TYPES[i], <<>>)]

getGlobalCompletions ==
  getFunctionCompletions \o getOperatorCompletions \o getTypeCompletions \o
  << Item(<<"t", "r", "u", "e">>, "Value", <<"B", "o", "o", "l", "e", "a", "n">>, <<"B", "o", "o", "l", "e", "a", "n", " ", "t", "r", "u", "e", " ", "v", "a", "l", "u", "e">>, <<>>),
     Item(<<"f", "a", "l", "s", "e">>, "Value", <<"B", "o", "o", "l", "e", "a", "n">>, <<"B", "o", "o", "l", "e", "a", "n", " ", "f", "a", "l", "s", "e", " ", "v", "a", "l", "u", "e">>, <<>>),
     Item(<<"(", ")">>, "Value", <<"H", "o", "l", "e">>, <<"E", "m", "p", "t", "y", " ", "v", "a", "l", "u", "e", " ", "(", "h", "o", "l", "e", ")">>, <<>>) >>

\* The snippet of getWhereClauseCompletions.
whereSnippetLabel == <<".", " ", "i", "d", "e", "n", "t", "i", "f", "i", "e", "r", " ", "=", " ", "e", "x", "p", "r", "e", "s", "s", "i", "o", "n">>

whereSnippetInsertText == <<".", " ", "$", "{", "1", ":", "i", "d", "e", "n", "t", "i", "f", "i", "e", "r", "}", " ", "=", " ", "$", "{", "2", ":", "e", "x", "p", "r", "e", "s", "s", "i", "o", "n", "}">>

getWhereClauseCompletions ==
  << Item(whereSnippetLabel, "Snippet", <<"W", "h", "e", "r", "e", " ", "c", "l", "a", "u", "s", "e">>, <<"D", "e", "f", "i", "n", "e", " ", "a", " ", "v", "a", "r", "i", "a", "b", "l", "e", " ", "i", "n", " ", "a", " ", "w", "h", "e", "r", "e", " ", "c", "l", "a", "u", "s", "e">>,
          whereSnippetInsertText) >>
  \o getGlobalCompletions

getPatternMatchCompletions ==
  [i \in 1..Len(patternLabels) |->
     Item(patternLabels[i], "Snippet", <<"P", "a", "t", "t", "e", "r", "n", " ", "m", "a", "t", "c", "h", " ", "c", "a", "s", "e">>,
          <<"P", "a", "t", "t", "e", "r", "n", " ", "m", "a", "t", "c", "h", "i", "n", "g", " ", "c", "a", "s", "e", ":", " ">> \o patternLabels[i], patternInsertTexts[i])]

getRecordFieldCompletions ==
  [i \in 1..Len(commonFields) |->
     Item(commonFields[i], "Field", <<"R", "e", "c", "o", "r", "d", " ", "f", "i", "e", "l", "d">>, <<"A", "c", "c", "e", "s", "s", " ", "f", "i", "e", "l", "d", ":", " ">> \o commonFields[i], <<>>)]

getPipelineCompletions ==
  << Item(<<"|", ">">>, "Operator", <<"P", "i", "p", "e", "l", "i", "n", "e", " ", "o", "p", "e", "r", "a", "t", "o", "r">>, <<"P", "a", "s", "s", " ", "v", "a", "l", "u", "e", " ", "t", "o", " ", "n", "e", "x", "t", " ", "f", "u", "n", "c", "t", "i", "o", "n", " ", "i", "n", " ", "p", "i", "p", "e", "l", "i", "n", "e">>,
          <<"|", ">", " ", "$", "{", "1", ":", "f", "u", "n", "c", "t", "i", "o", "n", "}">>),
     Item(<<">", ">">>, "Operator", <<"F", "u", "n", "c", "t", "i", "o", "n", " ", "c", "o", "m", "p", "o", "s", "i", "t", "i", "o", "n">>, <<"C", "o", "m", "p", "o", "s", "e", " ", "f", "u", "n", "c", "t", "i", "o", "n", "s", " ", "(", "r", "i", "g", "h", "t", " ", "t", "o", " ", "l", "e", "f", "t", ")">>, <<>>),
     Item(<<"<", "<">>, "Operator", <<"F", "u", "n", "c", "t", "i", "o", "n", " ", "c", "o", "m", "p", "o", "s", "i", "t", "i", "o", "n">>, <<"C", "o", "m", "p", "o", "s", "e", " ", "f", "u", "n", "c", "t", "i", "o", "n", "s", " ", "(", "l", "e", "f", "t", " ", "t", "o", " ", "r", "i", "g", "h", "t", ")">>, <<>>) >>
  \o getFunctionCompletions

getImportCompletions ==
  [i \in 1..Len(modules) |->
     Item(modules[i], "Module", <<"M", "o", "d", "u", "l", "e">>, <<"I", "m", "p", "o", "r", "t", " ">> \o modules[i] \o <<" ", "m", "o", "d", "u", "l", "e", " ", "f", "u", "n", "c", "t", "i", "o", "n", "s">>, <<>>)]

inferPipelineType(d, node) ==
  LET parent == findParentOfType(d, node, "pipeline")
      text == getNodeText(d, parent)
  IN IF parent = NoNode THEN "unknown"
     ELSE IF Includes(text, <<"[">>) \/ Includes(text, <<"l", "i", "s", "t", "/">>) THEN "list"
     ELSE IF \/ Includes(text, <<"m", "a", "y", "b", "e", "/">>)
             \/ Includes(text, <<"#", "s", "o", "m", "e">>)
             \/ Includes(text, <<"#", "n", "o", "n", "e">>) THEN "maybe"
     ELSE IF \/ Includes(text, <<"r", "e", "s", "u", "l", "t", "/">>)
             \/ Includes(text, <<"#", "o", "k">>)
             \/ Includes(text, <<"#", "e", "r", "r", "o", "r">>) THEN "result"
     ELSE "unknown"

\* The text of the cursor's line up to the cursor.
LineText(d, line, char) == GetTextRange(d, line, 0, line, char)

ParentType(d, node) ==
  IF Parent(d, node) = NoNode THEN "" ELSE NodeType(d, Parent(d, node))

Context(type, pipelineType) == [type |-> type, pipelineType |-> pipelineType]

\* A variant of analyzeCompletionContext that tests for the where clause before
\* it tests for the tag.
analyzeCompletionContextWhereFirst(d, line, char, node) ==
  LET lineText == LineText(d, line, char)
  IN IF StartsWith(Trim(lineText), <<";">>) \/ findParentOfType(d, node, "where") # NoNode
     THEN Context("where_clause", "")
     ELSE IF Includes(lineText, <<"#">>) \/ ParentType(d, node) = "tag"
     THEN Context("tag", "")
     ELSE Context("global", "")

\* A variant of analyzeCompletionContext that tests for the pattern match
\* before it tests for the where clause.
analyzeCompletionContextPatternFirst(d, line, char, node) ==
  LET lineText == LineText(d, line, char)
  IN IF Includes(lineText, <<"#">>) \/ ParentType(d, node) = "tag"
     THEN Context("tag", "")
     ELSE IF StartsWith(Trim(lineText), <<"|">>) \/ findParentOfType(d, node, "pattern_match") # NoNode
     THEN Context("pattern_match", "")
     ELSE IF StartsWith(Trim(lineText), <<";">>) \/ findParentOfType(d, node, "where") # NoNode
     THEN Context("where_clause", "")
     ELSE Context("global", "")

\* A variant of analyzeCompletionContext with an operator context for the
\* cursor on an operator.
analyzeCompletionContextWithOperators(d, line, char, node) ==
  LET lineText == LineText(d, line, char)
  IN IF Includes(lineText, <<"#">>) \/ ParentType(d, node) = "tag"
     THEN Context("tag", "")
     ELSE IF NodeType(d, node) = "op"
     THEN Context("operator", "")
     ELSE Context("global", "")

analyzeCompletionContext(d, line, char, node) ==
  LET lineText == LineText(d, line, char)
  IN IF Includes(lineText, <<"#">>) \/ ParentType(d, node) = "tag"
     THEN Context("tag", "")
     ELSE IF StartsWith(Trim(lineText), <<";">>) \/ findParentOfType(d, node, "where") # NoNode
     THEN Context("where_clause", "")
     ELSE IF StartsWith(Trim(lineText), <<"|">>) \/ findParentOfType(d, node, "pattern_match") # NoNode
     THEN Context("pattern_match", "")
     ELSE IF Includes(lineText, <<".">>) \/ ParentType(d, node) = "record_access"
     THEN Context("record_field", "")
     ELSE IF Includes(lineText, <<" ", ":", " ">>) \/ ParentType(d, node) = "type_annotation"
     THEN Context("type_annotation", "")
     ELSE IF Includes(lineText, <<"|", ">">>) \/ findParentOfType(d, node, "pipeline") # NoNode
     THEN Context("pipeline", inferPipelineType(d, node))
     ELSE IF Includes(lineText, <<"i", "m", "p", "o", "r", "t">>) \/ Includes(lineText, <<"u", "s", "e">>)
     THEN Context("import", "")
     ELSE Context("global", "")

CompletionsFor(context) ==
  CASE context.type = "tag" -> getTagCompletions
    [] context.type = "where_clause" -> getWhereClauseCompletions
    [] context.type = "pattern_match" -> getPatternMatchCompletions
    [] context.type = "record_field" -> getRecordFieldCompletions
    [] context.type = "function_call" -> getFunctionCompletions
    [] context.type = "operator" -> getOperatorCompletions
    [] context.type = "type_annotation" -> getTypeCompletions
    [] context.type = "pipeline" -> getPipelineCompletions
    [] context.type = "import" -> getImportCompletions
    [] OTHER -> getGlobalCompletions

getCompletionItems(p, extFault, d, line, char) ==
  LET pr == parse(p, extFault, d)
      node == getNodeAtPosition(d, line, char)
  IN IF pr.kind # "tree" THEN Thrown(ParseError(pr))
     ELSE IF node = NoNode THEN ReturnedItems(getGlobalCompletions)
     ELSE ReturnedItems(CompletionsFor(analyzeCompletionContext(d, line, char, node)))


\* ------------------------------------------------------------------------
\* Hover.  The documentation tables hold the first paragraph of each entry.

Digits == <<"0", "1", "2", "3", "4", "5", "6", "7", "8", "9", "A", "B", "C", "D", "E", "F">>

RECURSIVE IndexOf(_, _)
IndexOf(seq, x) ==
  IF seq = <<>> THEN 0
  ELSE IF Head(seq) = x THEN 1
  ELSE LET rest == IndexOf(Tail(seq), x) IN IF rest = 0 THEN 0 ELSE 1 + rest

IsDigit(c) == IndexOf(SubSeq(Digits, 1, 10), c) # 0

\* Number.prototype.toString(radix) of a non-negative integer, upper-cased.
RECURSIVE ToBase(_, _)
ToBase(n, radix) ==
  IF n < radix THEN <<Digits[n + 1]>>
  ELSE ToBase(n \div radix, radix) \o <<Digits[(n % radix) + 1]>>

\* `${n}` of an integer.
IntToString(n) == IF n < 0 THEN <<"-">> \o ToBase(-n, 10) ELSE ToBase(n, 10)

PadStart(s, n, c) == [i \in 1..(Max(n, Len(s)) - Len(s)) |-> c] \o s

NaN == -1

\* The longest prefix of decimal digits.
RECURSIVE DigitPrefix(_)
DigitPrefix(s) ==
  IF s = <<>> \/ ~IsDigit(Head(s)) THEN <<>> ELSE <<Head(s)>> \o DigitPrefix(Tail(s))

RECURSIVE DigitsValue(_)
DigitsValue(s) ==
  IF s = <<>> THEN 0 ELSE 10 * DigitsValue(SubSeq(s, 1, Len(s) - 1)) + (IndexOf(Digits, s[Len(s)]) - 1)

\* parseInt of a number literal: the value of the leading digits, NaN without any.
parseInt(s) == IF DigitPrefix(s) = <<>> THEN NaN ELSE DigitsValue(DigitPrefix(s))

RECURSIVE StripLeadingZeros(_)
StripLeadingZeros(s) ==
  IF Len(s) > 1 /\ Head(s) = "0" THEN StripLeadingZeros(Tail(s)) ELSE s

RECURSIVE StripTrailingZeros(_)
StripTrailingZeros(s) ==
  IF s # <<>> /\ s[Len(s)] = "0" THEN StripTrailingZeros(SubSeq(s, 1, Len(s) - 1)) ELSE s

\* `${parseFloat(text)}` of a literal "int.frac": the shortest decimal form.
FormatFloat(s) ==
  LET int == DigitPrefix(s)
      rest == SubSeq(s, Len(int) + 1, Len(s))
      frac == IF rest # <<>> /\ Head(rest) = "." THEN StripTrailingZeros(DigitPrefix(Tail(rest))) ELSE <<>>
  IN IF int = <<>> /\ frac = <<>> THEN <<"N", "a", "N">>
     ELSE StripLeadingZeros(IF int = <<>> THEN <<"0">> ELSE int) \o (IF frac = <<>> THEN <<>> ELSE <<".">> \o frac)

getIdentifierHover(identifier) ==
  IF InTable(builtInInfo, identifier) THEN builtInInfo[identifier]
  ELSE <<"*", "*", Backtick>> \o identifier \o <<Backtick, "*", "*", " ", "(", "I", "d", "e", "n", "t", "i", "f", "i", "e", "r", ")">>

getTagHover(d, node) ==
  LET idNode == NamedChild(d, node, 0)
      tagName == IF idNode = NoNode THEN <<>> ELSE getNodeText(d, idNode)
  IN IF InTable(tagInfo, tagName) THEN tagInfo[tagName]
     ELSE <<"*", "*", Backtick, "#">> \o tagName \o <<Backtick, "*", "*", " ", "(", "T", "a", "g", ")", "\n", "\n", "C", "u", "s", "t", "o", "m", " ", "t", "a", "g", " ", "i", "d", "e", "n", "t", "i", "f", "i", "e", "r", ".">>

\* A variant of getNumberHover whose byte rendering stops short of 255.
getNumberHoverByteBelow255(numberText) ==
  IF Includes(numberText, <<".">>)
  THEN <<"*", "*", Backtick>> \o numberText \o <<Backtick, "*", "*", " ", "(", "F", "l", "o", "a", "t", ")", "\n", "\n", "F", "l", "o", "a", "t", "i", "n", "g", "-", "p", "o", "i", "n", "t", " ", "n", "u", "m", "b", "e", "r", ":", " ">> \o FormatFloat(numberText)
  ELSE LET num == parseInt(numberText)
           hex == ToBase(num, 16)
           extra ==
             IF num >= 0 /\ num <= 1000000
             THEN <<"\n", "\n", "*", "*", "C", "o", "n", "v", "e", "r", "s", "i", "o", "n", "s", ":", "*", "*", "\n", "-", " ", "B", "i", "n", "a", "r", "y", ":", " ", Backtick>> \o ToBase(num, 2) \o <<Backtick, "\n", "-", " ", "H", "e", "x", ":", " ", Backtick, "0", "x">> \o hex \o <<Backtick>>
                  \o (IF num < 255 THEN <<"\n", "-", " ", "B", "y", "t", "e", ":", " ", Backtick, ";">> \o PadStart(hex, 2, "0") \o <<Backtick>> ELSE <<>>)
             ELSE <<>>
       IN <<"*", "*", Backtick>> \o numberText \o <<Backtick, "*", "*", " ", "(", "I", "n", "t", "e", "g", "e", "r", ")">> \o extra

getNumberHover(numberText) ==
  IF Includes(numberText, <<".">>)
  THEN <<"*", "*", Backtick>> \o numberText \o <<Backtick, "*", "*", " ", "(", "F", "l", "o", "a", "t", ")", "\n", "\n", "F", "l", "o", "a", "t", "i", "n", "g", "-", "p", "o", "i", "n", "t", " ", "n", "u", "m", "b", "e", "r", ":", " ">> \o FormatFloat(numberText)
  ELSE LET num == parseInt(numberText)
           hex == ToBase(num, 16)
           extra ==
             IF num >= 0 /\ num <= 1000000
             THEN <<"\n", "\n", "*", "*", "C", "o", "n", "v", "e", "r", "s", "i", "o", "n", "s", ":", "*", "*", "\n", "-", " ", "B", "i", "n", "a", "r", "y", ":", " ", Backtick>> \o ToBase(num, 2) \o <<Backtick, "\n", "-", " ", "H", "e", "x", ":", " ", Backtick, "0", "x">> \o hex \o <<Backtick>>
                  \o (IF num <= 255 THEN <<"\n", "-", " ", "B", "y", "t", "e", ":", " ", Backtick, ";">> \o PadStart(hex, 2, "0") \o <<Backtick>> ELSE <<>>)
             ELSE <<>>
       IN <<"*", "*", Backtick>> \o numberText \o <<Backtick, "*", "*", " ", "(", "I", "n", "t", "e", "g", "e", "r", ")">> \o extra

\* The fixed hover texts of the structural node types.
StructuralHover ==
  [fun |-> <<"*", "*", "F", "u", "n", "c", "t", "i", "o", "n", "*", "*", " ", "-", " ", "A", "n", "o", "n", "y", "m", "o", "u", "s", " ", "f", "u", "n", "c", "t", "i", "o", "n", " ", "e", "x", "p", "r", "e", "s", "s", "i", "o", "n">>,
   match_fun |-> <<"*", "*", "P", "a", "t", "t", "e", "r", "n", " ", "M", "a", "t", "c", "h", "i", "n", "g", " ", "F", "u", "n", "c", "t", "i", "o", "n", "*", "*", " ", "-", " ", "F", "u", "n", "c", "t", "i", "o", "n", " ", "w", "i", "t", "h", " ", "p", "a", "t", "t", "e", "r", "n", " ", "m", "a", "t", "c", "h", "i", "n", "g">>,
   where |-> <<"*", "*", "W", "h", "e", "r", "e", " ", "C", "l", "a", "u", "s", "e", "*", "*", " ", "-", " ", "L", "o", "c", "a", "l", " ", "v", "a", "r", "i", "a", "b", "l", "e", " ", "d", "e", "f", "i", "n", "i", "t", "i", "o", "n">>,
   record |-> <<"*", "*", "R", "e", "c", "o", "r", "d", "*", "*", " ", "-", " ", "S", "t", "r", "u", "c", "t", "u", "r", "e", "d", " ", "d", "a", "t", "a", " ", "t", "y", "p", "e">>,
   list |-> <<"*", "*", "L", "i", "s", "t", "*", "*", " ", "-", " ", "O", "r", "d", "e", "r", "e", "d", " ", "c", "o", "l", "l", "e", "c", "t", "i", "o", "n", " ", "o", "f", " ", "s", "a", "m", "e", "-", "t", "y", "p", "e", " ", "e", "l", "e", "m", "e", "n", "t", "s">>,
   hole |-> <<"*", "*", "H", "o", "l", "e", "*", "*", " ", "-", " ", "E", "m", "p", "t", "y", " ", "v", "a", "l", "u", "e", " ", Backtick, "(", ")", Backtick>>,
   pipeline |-> <<"*", "*", "P", "i", "p", "e", "l", "i", "n", "e", "*", "*", " ", "-", " ", "C", "h", "a", "i", "n", " ", "o", "f", " ", "f", "u", "n", "c", "t", "i", "o", "n", " ", "a", "p", "p", "l", "i", "c", "a", "t", "i", "o", "n", "s">>,
   infix |-> <<"*", "*", "I", "n", "f", "i", "x", " ", "E", "x", "p", "r", "e", "s", "s", "i", "o", "n", "*", "*", " ", "-", " ", "B", "i", "n", "a", "r", "y", " ", "o", "p", "e", "r", "a", "t", "i", "o", "n">>,
   apply |-> <<"*", "*", "F", "u", "n", "c", "t", "i", "o", "n", " ", "A", "p", "p", "l", "i", "c", "a", "t", "i", "o", "n", "*", "*", " ", "-", " ", "C", "a", "l", "l", "i", "n", "g", " ", "a", " ", "f", "u", "n", "c", "t", "i", "o", "n">>]

\* A variant of getEnhancedHoverForNode that does not climb to the parent.
getEnhancedHoverForNodeWithoutParent(d, node) ==
  IF NodeType(d, node) \in DOMAIN StructuralHover
  THEN HoverOf(StructuralHover[NodeType(d, node)])
  ELSE NoHover

RECURSIVE getEnhancedHoverForNode(_, _)
getEnhancedHoverForNode(d, node) ==
  LET nodeText == getNodeText(d, node)
      type == NodeType(d, node)
  IN CASE type = "id" -> HoverOf(getIdentifierHover(nodeText))
       [] type = "op" -> HoverOf(getOperatorDocumentation(nodeText))
       [] type = "tag" -> HoverOf(getTagHover(d, node))
       [] type = "number" -> HoverOf(getNumberHover(nodeText))
       [] type = "text" ->
            HoverOf(<<"*", "*", Backtick>> \o nodeText \o <<Backtick, "*", "*", " ", "(", "T", "e", "x", "t", ")", "\n", "\n", "T", "e", "x", "t", " ", "l", "i", "t", "e", "r", "a", "l", " ", "w", "i", "t", "h", " ">>
                    \o IntToString(Len(nodeText) - 2) \o <<" ", "c", "h", "a", "r", "a", "c", "t", "e", "r", "s", ".">>)
       [] type = "bytes" ->
            HoverOf(<<"*", "*", Backtick>> \o nodeText \o <<Backtick, "*", "*", " ", "(", "B", "y", "t", "e", "s", ")", "\n", "\n", "B", "a", "s", "e", "6", "4", "-", "e", "n", "c", "o", "d", "e", "d", " ", "b", "y", "t", "e", "s", " ", "l", "i", "t", "e", "r", "a", "l", ".">>)
       [] type \in DOMAIN StructuralHover -> HoverOf(StructuralHover[type])
       [] OTHER ->
            IF Parent(d, node) # NoNode THEN getEnhancedHoverForNode(d, Parent(d, node)) ELSE NoHover

getHoverInfo(p, extFault, d, line, char) ==
  LET pr == parse(p, extFault, d)
      node == getNodeAtPosition(d, line, char)
  IN IF pr.kind # "tree" THEN Thrown(ParseError(pr))
     ELSE IF node = NoNode THEN ReturnedHover(NoHover)
     ELSE ReturnedHover(getEnhancedHoverForNode(d, node))


\* ------------------------------------------------------------------------
\* Document symbols.  A name is a sequence of characters, or the one-element
\* sequence holding a node type where the program falls back to node.type.

\* The outline the client holds: the document and the result of the last call of
\* getDocumentSymbols that returned, and whether the outcome of another call has
\* been delivered since.
VARIABLE outline

NoOutline == [doc |-> 0, symbols |-> <<>>, between |-> FALSE]

findNodesOfType(d, type) ==
  SelectSeq(walkTree(d, RootNode(d)), LAMBDA n : NodeType(d, n) = type)

\* The where nodes that have a ";" child followed by an "id" child, with a
\* further child after it.
findWhereClauseDeclarations(d) ==
  SelectSeq(walkTree(d, RootNode(d)),
            LAMBDA n :
              /\ NodeType(d, n) = "where"
              /\ \E i \in 0..(Len(Children(d, n)) - 1) :
                   /\ NodeType(d, Child(d, n, i)) = ";"
                   /\ i + 2 < Len(Children(d, n))
                   /\ NodeType(d, Child(d, n, i + 1)) = "id")

RECURSIVE getSymbolName(_, _)
getSymbolName(d, node) ==
  LET type == NodeType(d, node)
  IN CASE type = "id" -> getNodeText(d, node)
       [] type = "tag" ->
            IF NamedChild(d, node, 0) # NoNode
            THEN <<"#">> \o getNodeText(d, NamedChild(d, node, 0))
            ELSE <<"#", "u", "n", "k", "n", "o", "w", "n">>
       [] type = "record" -> <<"{", ".", ".", ".", "}">>
       [] type = "list" -> <<"[", ".", ".", ".", "]">>
       [] type = "parens" ->
            IF NamedChild(d, node, 0) # NoNode
            THEN <<"(">> \o getSymbolName(d, NamedChild(d, node, 0)) \o <<")">>
            ELSE <<"(", ".", ".", ".", ")">>
       [] type = "hole" -> <<"(", ")">>
       [] OTHER -> <<type>>

getSymbolKind(d, exprNode) ==
  IF exprNode = NoNode THEN "Variable"
  ELSE LET type == NodeType(d, exprNode)
       IN CASE type \in {"fun", "match_fun"} -> "Function"
            [] type = "record" -> "Object"
            [] type = "list" -> "Array"
            [] type = "number" -> "Number"
            [] type = "text" -> "String"
            [] type = "tag" -> "Enum"
            [] type = "bytes" -> "String"
            [] type = "hole" -> "Null"
            [] type = "type_declaration" -> "Class"
            [] OTHER -> "Variable"

getSymbolDetail(d, exprNode) ==
  IF exprNode = NoNode THEN <<>>
  ELSE LET type == NodeType(d, exprNode)
       IN CASE type = "fun" -> <<"F", "u", "n", "c", "t", "i", "o", "n">>
            [] type = "match_fun" -> <<"P", "a", "t", "t", "e", "r", "n", " ", "m", "a", "t", "c", "h", "i", "n", "g", " ", "f", "u", "n", "c", "t", "i", "o", "n">>
            [] type = "record" -> <<"R", "e", "c", "o", "r", "d">>
            [] type = "list" -> <<"L", "i", "s", "t">>
            [] type = "tag" -> <<"T", "a", "g", "g", "e", "d", " ", "v", "a", "l", "u", "e">>
            [] type = "number" ->
                 IF Includes(getNodeText(d, exprNode), <<".">>) THEN <<"F", "l", "o", "a", "t">> ELSE <<"I", "n", "t", "e", "g", "e", "r">>
            [] type = "text" -> <<"T", "e", "x", "t">>
            [] type = "bytes" -> <<"B", "y", "t", "e", "s">>
            [] type = "hole" -> <<"H", "o", "l", "e">>
            [] type = "type_declaration" -> <<"T", "y", "p", "e", " ", "d", "e", "f", "i", "n", "i", "t", "i", "o", "n">>
            [] OTHER -> <<>>

\* A document symbol; its children are always empty.
createDocumentSymbol(d, node) ==
  LET patternNode == Child(d, node, 0)
      exprNode == NamedChild(d, node, Len(NamedChildren(d, node)) - 1)
  IN IF patternNode = NoNode
     THEN [name |-> <<"u", "n", "k", "n", "o", "w", "n">>, kind |-> "Variable", range |-> nodeToRange(d, node),
           selectionRange |-> nodeToRange(d, node), detail |-> <<>>]
     ELSE [name |-> getSymbolName(d, patternNode), kind |-> getSymbolKind(d, exprNode),
           range |-> nodeToRange(d, node), selectionRange |-> nodeToRange(d, patternNode),
           detail |-> getSymbolDetail(d, exprNode)]

\* A variant of getDocumentSymbols that accumulates into an array kept across
\* the calls on a document.
getDocumentSymbolsAccumulating(p, extFault, d) ==
  LET pr == parse(p, extFault, d)
      nodes == findNodesOfType(d, "declaration") \o findWhereClauseDeclarations(d)
               \o findNodesOfType(d, "type_declaration")
  IN IF pr.kind # "tree" THEN Thrown(ParseError(pr))
     ELSE ReturnedValue((IF outline.doc = d THEN outline.symbols ELSE <<>>)
                        \o [i \in 1..Len(nodes) |-> createDocumentSymbol(d, nodes[i])])

getDocumentSymbols(p, extFault, d) ==
  LET pr == parse(p, extFault, d)
      nodes == findNodesOfType(d, "declaration") \o findWhereClauseDeclarations(d)
               \o findNodesOfType(d, "type_declaration")
  IN IF pr.kind # "tree" THEN Thrown(ParseError(pr))
     ELSE ReturnedValue([i \in 1..Len(nodes) |-> createDocumentSymbol(d, nodes[i])])

\* ------------------------------------------------------------------------
\* References and rename.  Null stands for a null result.

Null == [null |-> TRUE, value |-> <<>>]

NonNull(value) == [null |-> FALSE, value |-> value]

\* The identifier nodes with the text of the identifier under the cursor.
ReferenceNodes(d, line, char) ==
  LET node == getNodeAtPosition(d, line, char)
  IN IF node = NoNode \/ NodeType(d, node) # "id" THEN <<>>
     ELSE SelectSeq(walkTree(d, RootNode(d)),
                    LAMBDA n : NodeType(d, n) = "id" /\ getNodeText(d, n) = getNodeText(d, node))

\* A variant of findReferences that leaves out the node under the cursor.
findReferencesWithoutTarget(p, extFault, d, line, char) ==
  LET pr == parse(p, extFault, d)
      nodes == SelectSeq(ReferenceNodes(d, line, char),
                         LAMBDA n : n # getNodeAtPosition(d, line, char))
  IN IF pr.kind # "tree" THEN Thrown(ParseError(pr))
     ELSE ReturnedValue([i \in 1..Len(nodes) |-> [uri |-> d, range |-> nodeToRange(d, nodes[i])]])

findReferences(p, extFault, d, line, char) ==
  LET pr == parse(p, extFault, d)
      nodes == ReferenceNodes(d, line, char)
  IN IF pr.kind # "tree" THEN Thrown(ParseError(pr))
     ELSE ReturnedValue([i \in 1..Len(nodes) |-> [uri |-> d, range |-> nodeToRange(d, nodes[i])]])

\* A variant of prepareRename that lets the built-in functions be renamed.
prepareRenameOfBuiltIns(p, extFault, d, line, char) ==
  LET pr == parse(p, extFault, d)
      node == getNodeAtPosition(d, line, char)
  IN IF pr.kind # "tree" THEN Thrown(ParseError(pr))
     ELSE IF node = NoNode \/ NodeType(d, node) # "id" THEN ReturnedValue(Null)
     ELSE ReturnedValue(NonNull([range |-> nodeToRange(d, node), placeholder |-> getNodeText(d, node)]))

prepareRename(p, extFault, d, line, char) ==
  LET pr == parse(p, extFault, d)
      node == getNodeAtPosition(d, line, char)
      identifier == getNodeText(d, node)
  IN IF pr.kind # "tree" THEN Thrown(ParseError(pr))
     ELSE IF node = NoNode \/ NodeType(d, node) # "id" THEN ReturnedValue(Null)
     ELSE IF \/ \E i \in 1..Len(BUILT_IN_FUNCTIONS) : BUILT_IN_FUNCTIONS[i] = identifier
             \/ \E i \in 1..Len(KEYWORDS) : KEYWORDS[i] = identifier
          THEN ReturnedValue(Null)
     ELSE ReturnedValue(NonNull([range |-> nodeToRange(d, node), placeholder |-> identifier]))

\* A variant of executeRename that edits the first reference only.
executeRenameFirstOnly(p, extFault, d, line, char, newName) ==
  LET refs == findReferences(p, extFault, d, line, char)
  IN IF refs.status = "throw" THEN refs
     ELSE IF Len(refs.value) = 0 THEN ReturnedValue(Null)
     ELSE ReturnedValue(NonNull([changes |-> d :> <<[range |-> refs.value[1].range, newText |-> newName]>>]))

\* executeRename: the exception of findReferences propagates.
executeRename(p, extFault, d, line, char, newName) ==
  LET refs == findReferences(p, extFault, d, line, char)
  IN IF refs.status = "throw" THEN refs
     ELSE IF Len(refs.value) = 0 THEN ReturnedValue(Null)
     ELSE ReturnedValue(NonNull(
            [changes |-> d :> [i \in 1..Len(refs.value) |->
                                 [range |-> refs.value[i].range, newText |-> newName]]]))

\* ------------------------------------------------------------------------
\* The settings of the server and the documents the client has open.

VARIABLES
  hasConfigurationCapability, \* set by onInitialize from the client's capabilities
  globalSettings,             \* the settings used for a client without workspace/configuration
  documentSettings,           \* the cache: uri -> the promise of that document's settings
  openDocuments,              \* documents (TextDocuments): uri -> the text of the open document, 0 when closed
  promises,                   \* the workspace/configuration requests the cache or a validation still holds
  validations,                \* the validateTextDocument calls suspended at `await getDocumentSettings`
  clientSettings,             \* the client's configuration of the section scrapScriptServer
  notified,                   \* history: the settings of the didChangeConfiguration notifications handled
  event,                      \* history: the last notification or response handled
  sent                        \* history: the sendDiagnostics messages of the last step

\* What the settings handlers read and write after the handshake.
settingsState ==
  <<globalSettings, documentSettings, openDocuments, promises, validations, clientSettings,
    notified, event, sent>>

settingsVars == <<hasConfigurationCapability, settingsState>>

\* The documents the client opens are uris 1..MaxUris.
MaxUris == 2

Uris == 1..MaxUris

\* The text a document is opened or edited with: a sample document with
\* three syntax errors.
Texts == {14}

\* The client's values of maxNumberOfProblems are 1..MaxSetting.
MaxSetting == 2

\* At most MaxPending validations are suspended at a time, and at most
\* MaxChanges configuration changes are notified.
MaxPending == 2

MaxChanges == 2

MaxPromises == MaxPending + MaxUris

defaultSettings == [maxNumberOfProblems |-> 1000]

ClientSettings == {[maxNumberOfProblems |-> k] : k \in 1..MaxSetting}

\* change.settings.scrapScriptServer of a notification: absent, or settings.
Sections == {<<>>} \cup {<<s>> : s \in ClientSettings}

\* new Map()
NoSettings == [u \in {} |-> 0]

NoPromise == [state |-> "free", uri |-> 0, asked |-> 0, value |-> defaultSettings]

NoEvent == [kind |-> "none", uri |-> 0, before |-> NoSettings]

\* The server as constructed, before any notification.
SettingsInit ==
  /\ hasConfigurationCapability = FALSE
  /\ globalSettings = defaultSettings
  /\ documentSettings = NoSettings
  /\ openDocuments = [u \in Uris |-> 0]
  /\ promises = [p \in 1..MaxPromises |-> NoPromise]
  /\ validations = <<>>
  /\ notified = <<>>
  /\ event = NoEvent
  /\ sent = <<>>
\* ------------------------------------------------------------------------
\* The hover of the server module hover.ts.

builtInMap ==
  (<<"t", "r", "u", "e">> :> <<Backtick, "t", "r", "u", "e", Backtick, " ", "-", " ", "B", "o", "o", "l", "e", "a", "n", " ", "c", "o", "n", "s", "t", "a", "n", "t", " ", "r", "e", "p", "r", "e", "s", "e", "n", "t", "i", "n", "g", " ", "t", "r", "u", "e">>) @@
  (<<"f", "a", "l", "s", "e">> :> <<Backtick, "f", "a", "l", "s", "e", Backtick, " ", "-", " ", "B", "o", "o", "l", "e", "a", "n", " ", "c", "o", "n", "s", "t", "a", "n", "t", " ", "r", "e", "p", "r", "e", "s", "e", "n", "t", "i", "n", "g", " ", "f", "a", "l", "s", "e">>) @@
  (<<"m", "a", "p">> :> <<Backtick, "m", "a", "p", Backtick, " ", "-", " ", "F", "u", "n", "c", "t", "i", "o", "n", " ", "t", "o", " ", "t", "r", "a", "n", "s", "f", "o", "r", "m", " ", "e", "a", "c", "h", " ", "e", "l", "e", "m", "e", "n", "t", " ", "o", "f", " ", "a", " ", "c", "o", "l", "l", "e", "c", "t", "i", "o", "n">>) @@
  (<<"f", "i", "l", "t", "e", "r">> :> <<Backtick, "f", "i", "l", "t", "e", "r", Backtick, " ", "-", " ", "F", "u", "n", "c", "t", "i", "o", "n", " ", "t", "o", " ", "f", "i", "l", "t", "e", "r", " ", "e", "l", "e", "m", "e", "n", "t", "s", " ", "o", "f", " ", "a", " ", "c", "o", "l", "l", "e", "c", "t", "i", "o", "n">>) @@
  (<<"f", "o", "l", "d">> :> <<Backtick, "f", "o", "l", "d", Backtick, " ", "-", " ", "F", "u", "n", "c", "t", "i", "o", "n", " ", "t", "o", " ", "r", "e", "d", "u", "c", "e", " ", "a", " ", "c", "o", "l", "l", "e", "c", "t", "i", "o", "n", " ", "t", "o", " ", "a", " ", "s", "i", "n", "g", "l", "e", " ", "v", "a", "l", "u", "e">>)

operatorInfoModule ==
  (<<"|", ">">> :> <<Backtick, "|", ">", Backtick, " ", "-", " ", "P", "i", "p", "e", "l", "i", "n", "e", " ", "o", "p", "e", "r", "a", "t", "o", "r", ":", " ", "p", "a", "s", "s", "e", "s", " ", "t", "h", "e", " ", "l", "e", "f", "t", " ", "v", "a", "l", "u", "e", " ", "t", "o", " ", "t", "h", "e", " ", "f", "u", "n", "c", "t", "i", "o", "n", " ", "o", "n", " ", "t", "h", "e", " ", "r", "i", "g", "h", "t">>) @@
  (<<"=", "=">> :> <<Backtick, "=", "=", Backtick, " ", "-", " ", "E", "q", "u", "a", "l", "i", "t", "y", " ", "o", "p", "e", "r", "a", "t", "o", "r">>) @@
  (<<"/", "=">> :> <<Backtick, "/", "=", Backtick, " ", "-", " ", "I", "n", "e", "q", "u", "a", "l", "i", "t", "y", " ", "o", "p", "e", "r", "a", "t", "o", "r">>) @@
  (<<"<">> :> <<Backtick, "<", Backtick, " ", "-", " ", "L", "e", "s", "s", " ", "t", "h", "a", "n", " ", "o", "p", "e", "r", "a", "t", "o", "r">>) @@
  (<<">">> :> <<Backtick, ">", Backtick, " ", "-", " ", "G", "r", "e", "a", "t", "e", "r", " ", "t", "h", "a", "n", " ", "o", "p", "e", "r", "a", "t", "o", "r">>) @@
  (<<"<", "=">> :> <<Backtick, "<", "=", Backtick, " ", "-", " ", "L", "e", "s", "s", " ", "t", "h", "a", "n", " ", "o", "r", " ", "e", "q", "u", "a", "l", " ", "o", "p", "e", "r", "a", "t", "o", "r">>) @@
  (<<">", "=">> :> <<Backtick, ">", "=", Backtick, " ", "-", " ", "G", "r", "e", "a", "t", "e", "r", " ", "t", "h", "a", "n", " ", "o", "r", " ", "e", "q", "u", "a", "l", " ", "o", "p", "e", "r", "a", "t", "o", "r">>) @@
  (<<"*">> :> <<Backtick, "*", Backtick, " ", "-", " ", "M", "u", "l", "t", "i", "p", "l", "i", "c", "a", "t", "i", "o", "n", " ", "o", "p", "e", "r", "a", "t", "o", "r">>) @@
  (<<"/">> :> <<Backtick, "/", Backtick, " ", "-", " ", "D", "i", "v", "i", "s", "i", "o", "n", " ", "o", "p", "e", "r", "a", "t", "o", "r">>) @@
  (<<"/", "/">> :> <<Backtick, "/", "/", Backtick, " ", "-", " ", "I", "n", "t", "e", "g", "e", "r", " ", "d", "i", "v", "i", "s", "i", "o", "n", " ", "o", "p", "e", "r", "a", "t", "o", "r">>) @@
  (<<"%">> :> <<Backtick, "%", Backtick, " ", "-", " ", "M", "o", "d", "u", "l", "o", " ", "o", "p", "e", "r", "a", "t", "o", "r">>) @@
  (<<"+">> :> <<Backtick, "+", Backtick, " ", "-", " ", "A", "d", "d", "i", "t", "i", "o", "n", " ", "o", "p", "e", "r", "a", "t", "o", "r">>) @@
  (<<"-">> :> <<Backtick, "-", Backtick, " ", "-", " ", "S", "u", "b", "t", "r", "a", "c", "t", "i", "o", "n", " ", "o", "p", "e", "r", "a", "t", "o", "r">>) @@
  (<<"&", "&">> :> <<Backtick, "&", "&", Backtick, " ", "-", " ", "L", "o", "g", "i", "c", "a", "l", " ", "A", "N", "D", " ", "o", "p", "e", "r", "a", "t", "o", "r">>) @@
  (<<"|", "|">> :> <<Backtick, "|", "|", Backtick, " ", "-", " ", "L", "o", "g", "i", "c", "a", "l", " ", "O", "R", " ", "o", "p", "e", "r", "a", "t", "o", "r">>) @@
  (<<":", ":">> :> <<Backtick, ":", ":", Backtick, " ", "-", " ", "C", "o", "n", "s", " ", "o", "p", "e", "r", "a", "t", "o", "r", " ", "(", "a", "d", "d", " ", "e", "l", "e", "m", "e", "n", "t", " ", "t", "o", " ", "l", "i", "s", "t", ")">>) @@
  (<<".", ".">> :> <<Backtick, ".", ".", Backtick, " ", "-", " ", "R", "a", "n", "g", "e", " ", "o", "p", "e", "r", "a", "t", "o", "r">>) @@
  (<<"@">> :> <<Backtick, "@", Backtick, " ", "-", " ", "R", "e", "c", "o", "r", "d", " ", "f", "i", "e", "l", "d", " ", "a", "c", "c", "e", "s", "s">>) @@
  (<<">", ">">> :> <<Backtick, ">", ">", Backtick, " ", "-", " ", "F", "u", "n", "c", "t", "i", "o", "n", " ", "c", "o", "m", "p", "o", "s", "i", "t", "i", "o", "n", " ", "o", "p", "e", "r", "a", "t", "o", "r", " ", "(", "r", "i", "g", "h", "t", " ", "t", "o", " ", "l", "e", "f", "t", ")">>) @@
  (<<"<", "<">> :> <<Backtick, "<", "<", Backtick, " ", "-", " ", "F", "u", "n", "c", "t", "i", "o", "n", " ", "c", "o", "m", "p", "o", "s", "i", "t", "i", "o", "n", " ", "o", "p", "e", "r", "a", "t", "o", "r", " ", "(", "l", "e", "f", "t", " ", "t", "o", " ", "r", "i", "g", "h", "t", ")">>) @@
  (<<"^">> :> <<Backtick, "^", Backtick, " ", "-", " ", "S", "t", "r", "i", "n", "g", " ", "c", "o", "n", "c", "a", "t", "e", "n", "a", "t", "i", "o", "n", " ", "o", "p", "e", "r", "a", "t", "o", "r">>) @@
  (<<">", "*">> :> <<Backtick, ">", "*", Backtick, " ", "-", " ", "M", "a", "p", " ", "o", "p", "e", "r", "a", "t", "o", "r">>) @@
  (<<"+", "+">> :> <<Backtick, "+", "+", Backtick, " ", "-", " ", "L", "i", "s", "t", " ", "c", "o", "n", "c", "a", "t", "e", "n", "a", "t", "i", "o", "n", " ", "o", "p", "e", "r", "a", "t", "o", "r">>) @@
  (<<">", "+">> :> <<Backtick, ">", "+", Backtick, " ", "-", " ", "C", "o", "n", "s", " ", "p", "a", "t", "t", "e", "r", "n", " ", "o", "p", "e", "r", "a", "t", "o", "r", " ", "(", "l", "i", "s", "t", " ", "d", "e", "s", "t", "r", "u", "c", "t", "u", "r", "i", "n", "g", ")">>) @@
  (<<"+", "<">> :> <<Backtick, "+", "<", Backtick, " ", "-", " ", "A", "p", "p", "e", "n", "d", " ", "o", "p", "e", "r", "a", "t", "o", "r", " ", "(", "a", "d", "d", " ", "e", "l", "e", "m", "e", "n", "t", " ", "t", "o", " ", "e", "n", "d", " ", "o", "f", " ", "l", "i", "s", "t", ")">>) @@
  (<<"'">> :> <<Backtick, "'", Backtick, " ", "-", " ", "A", "p", "p", "l", "y", " ", "o", "p", "e", "r", "a", "t", "o", "r">>) @@
  (<<":">> :> <<Backtick, ":", Backtick, " ", " ", "-", " ", "T", "y", "p", "e", " ", "a", "n", "n", "o", "t", "a", "t", "i", "o", "n", " ", "o", "p", "e", "r", "a", "t", "o", "r">>) @@
  (<<"?">> :> <<Backtick, "?", Backtick, " ", " ", "-", " ", "O", "p", "t", "i", "o", "n", "a", "l", " ", "v", "a", "l", "u", "e", " ", "o", "p", "e", "r", "a", "t", "o", "r">>) @@
  (<<"!">> :> <<Backtick, "!", Backtick, " ", " ", "-", " ", "F", "o", "r", "c", "e", " ", "u", "n", "w", "r", "a", "p", " ", "o", "p", "e", "r", "a", "t", "o", "r">>) @@
  (<<".">> :> <<Backtick, ".", Backtick, " ", " ", "-", " ", "R", "e", "c", "o", "r", "d", " ", "f", "i", "e", "l", "d", " ", "a", "c", "c", "e", "s", "s", " ", "o", "p", "e", "r", "a", "t", "o", "r">>)

tagInfoModule ==
  (<<"t", "r", "u", "e">> :> <<Backtick, "#", "t", "r", "u", "e", Backtick, " ", "-", " ", "B", "o", "o", "l", "e", "a", "n", " ", "t", "r", "u", "e", " ", "t", "a", "g">>) @@
  (<<"f", "a", "l", "s", "e">> :> <<Backtick, "#", "f", "a", "l", "s", "e", Backtick, " ", "-", " ", "B", "o", "o", "l", "e", "a", "n", " ", "f", "a", "l", "s", "e", " ", "t", "a", "g">>) @@
  (<<"s", "o", "m", "e">> :> <<Backtick, "#", "s", "o", "m", "e", Backtick, " ", "-", " ", "O", "p", "t", "i", "o", "n", " ", "t", "y", "p", "e", " ", "t", "a", "g", " ", "f", "o", "r", " ", "e", "x", "i", "s", "t", "i", "n", "g", " ", "v", "a", "l", "u", "e", "s">>) @@
  (<<"n", "o", "n", "e">> :> <<Backtick, "#", "n", "o", "n", "e", Backtick, " ", "-", " ", "O", "p", "t", "i", "o", "n", " ", "t", "y", "p", "e", " ", "t", "a", "g", " ", "f", "o", "r", " ", "m", "i", "s", "s", "i", "n", "g", " ", "v", "a", "l", "u", "e", "s">>) @@
  (<<"o", "k">> :> <<Backtick, "#", "o", "k", Backtick, " ", "-", " ", "R", "e", "s", "u", "l", "t", " ", "t", "y", "p", "e", " ", "t", "a", "g", " ", "f", "o", "r", " ", "s", "u", "c", "c", "e", "s", "s", "f", "u", "l", " ", "o", "p", "e", "r", "a", "t", "i", "o", "n", "s">>) @@
  (<<"e", "r", "r", "o", "r">> :> <<Backtick, "#", "e", "r", "r", "o", "r", Backtick, " ", "-", " ", "R", "e", "s", "u", "l", "t", " ", "t", "y", "p", "e", " ", "t", "a", "g", " ", "f", "o", "r", " ", "f", "a", "i", "l", "e", "d", " ", "o", "p", "e", "r", "a", "t", "i", "o", "n", "s">>) @@
  (<<"a", "d", "d">> :> <<Backtick, "#", "a", "d", "d", Backtick, " ", "-", " ", "A", "d", "d", "i", "t", "i", "o", "n", " ", "o", "p", "e", "r", "a", "t", "i", "o", "n", " ", "t", "a", "g">>) @@
  (<<"s", "u", "b">> :> <<Backtick, "#", "s", "u", "b", Backtick, " ", "-", " ", "S", "u", "b", "t", "r", "a", "c", "t", "i", "o", "n", " ", "o", "p", "e", "r", "a", "t", "i", "o", "n", " ", "t", "a", "g">>) @@
  (<<"m", "u", "l">> :> <<Backtick, "#", "m", "u", "l", Backtick, " ", "-", " ", "M", "u", "l", "t", "i", "p", "l", "i", "c", "a", "t", "i", "o", "n", " ", "o", "p", "e", "r", "a", "t", "i", "o", "n", " ", "t", "a", "g">>) @@
  (<<"d", "i", "v">> :> <<Backtick, "#", "d", "i", "v", Backtick, " ", "-", " ", "D", "i", "v", "i", "s", "i", "o", "n", " ", "o", "p", "e", "r", "a", "t", "i", "o", "n", " ", "t", "a", "g">>)

\* A variant of getHoverForNode that does not try the parent.
getHoverForNodeWithoutParent(d, node) ==
  IF NodeType(d, node) = "where"
  THEN HoverOf(<<Backtick, "w", "h", "e", "r", "e", Backtick, " ", "d", "e", "c", "l", "a", "r", "a", "t", "i", "o", "n", " ", "-", " ", "B", "i", "n", "d", "s", " ", "e", "x", "p", "r", "e", "s", "s", "i", "o", "n", "s", " ", "t", "o", " ", "n", "a", "m", "e", "s", " ", "i", "n", " ", "t", "h", "e", " ", "c", "u", "r", "r", "e", "n", "t", " ", "s", "c", "o", "p", "e">>)
  ELSE NoHover

RECURSIVE getHoverForNode(_, _)
getHoverForNode(d, node) ==
  LET nodeText == getNodeText(d, node)
      type == NodeType(d, node)
      idNode == NamedChild(d, node, 0)
      tagName == IF idNode = NoNode THEN <<>> ELSE getNodeText(d, idNode)
  IN CASE type = "id" ->
            HoverOf(IF InTable(builtInMap, nodeText) THEN builtInMap[nodeText]
                    ELSE <<Backtick>> \o nodeText \o <<Backtick, " ", "(", "I", "d", "e", "n", "t", "i", "f", "i", "e", "r", ")">>)
       [] type = "op" ->
            HoverOf(IF InTable(operatorInfoModule, nodeText) THEN operatorInfoModule[nodeText]
                    ELSE <<Backtick>> \o nodeText \o <<Backtick, " ", "(", "O", "p", "e", "r", "a", "t", "o", "r", ")">>)
       [] type = "tag" ->
            HoverOf(IF InTable(tagInfoModule, tagName) THEN tagInfoModule[tagName]
                    ELSE <<Backtick, "#">> \o tagName \o <<Backtick, " ", "(", "T", "a", "g", ")">>)
       [] type = "number" -> HoverOf(<<Backtick>> \o nodeText \o <<Backtick, " ", "(", "N", "u", "m", "b", "e", "r", ")">>)
       [] type = "text" -> HoverOf(<<Backtick>> \o nodeText \o <<Backtick, " ", "(", "T", "e", "x", "t", ")">>)
       [] type = "bytes" -> HoverOf(<<Backtick>> \o nodeText \o <<Backtick, " ", "(", "B", "y", "t", "e", "s", ")">>)
       [] type = "fun" -> HoverOf(<<Backtick, "F", "u", "n", "c", "t", "i", "o", "n", Backtick, " ", "-", " ", "A", "n", "o", "n", "y", "m", "o", "u", "s", " ", "f", "u", "n", "c", "t", "i", "o", "n", " ", "e", "x", "p", "r", "e", "s", "s", "i", "o", "n">>)
       [] type = "match_fun" -> HoverOf(<<Backtick, "M", "a", "t", "c", "h", " ", "F", "u", "n", "c", "t", "i", "o", "n", Backtick, " ", "-", " ", "P", "a", "t", "t", "e", "r", "n", " ", "m", "a", "t", "c", "h", "i", "n", "g", " ", "f", "u", "n", "c", "t", "i", "o", "n", " ", "e", "x", "p", "r", "e", "s", "s", "i", "o", "n">>)
       [] type = "where" ->
            HoverOf(<<Backtick, "w", "h", "e", "r", "e", Backtick, " ", "d", "e", "c", "l", "a", "r", "a", "t", "i", "o", "n", " ", "-", " ", "B", "i", "n", "d", "s", " ", "e", "x", "p", "r", "e", "s", "s", "i", "o", "n", "s", " ", "t", "o", " ", "n", "a", "m", "e", "s", " ", "i", "n", " ", "t", "h", "e", " ", "c", "u", "r", "r", "e", "n", "t", " ", "s", "c", "o", "p", "e">>)
       [] OTHER ->
            IF Parent(d, node) # NoNode THEN getHoverForNode(d, Parent(d, node)) ELSE NoHover

\* getHoverInfo of hover.ts: a null or empty text gives no hover.
getHoverInfoModule(p, extFault, d, line, char) ==
  LET pr == parse(p, extFault, d)
      node == getNodeAtPosition(d, line, char)
      hoverInfo == getHoverForNode(d, node)
  IN IF pr.kind # "tree" THEN Thrown(ParseError(pr))
     ELSE IF node = NoNode THEN ReturnedHover(NoHover)
     ELSE IF hoverInfo.null \/ hoverInfo.value = <<>> THEN ReturnedHover(NoHover)
     ELSE ReturnedHover(hoverInfo)

\* ------------------------------------------------------------------------
\* Code actions.  A range is <<start line, start character, end line, end character>>.

CodeAction(title, kind, range, newText) ==
  [title |-> title, kind |-> kind, range |-> range, newText |-> newText]

\* A variant of getCodeActions that reads the line on which the range ends.
getCodeActionsOfRangeEnd(p, extFault, d, range) ==
  LET pr == parse(p, extFault, d)
      node == getNodeAtPosition(d, range[1], range[2])
      lineText == GetTextRange(d, range[3], 0, range[3] + 1, 0)
  IN IF pr.kind # "tree" THEN Thrown(ParseError(pr))
     ELSE ReturnedValue(
            (IF node # NoNode /\ findParentOfType(d, node, "match_fun") # NoNode
             THEN <<CodeAction("Add catch-all pattern", "quickfix", range, <<"|", " ", "_", " ", "-", ">", " ", "(", ")", "\n">>)>>
             ELSE <<>>)
            \o (IF Trim(lineText) = <<";">>
                THEN <<CodeAction("Complete where clause", "quickfix", range, <<" ", "i", "d", "e", "n", "t", "i", "f", "i", "e", "r", " ", "=", " ", "e", "x", "p", "r", "e", "s", "s", "i", "o", "n">>)>>
                ELSE <<>>)
            \o (IF Trim(lineText) = <<"|">>
                THEN <<CodeAction("Complete pattern match", "quickfix", range, <<" ", "p", "a", "t", "t", "e", "r", "n", " ", "-", ">", " ", "e", "x", "p", "r", "e", "s", "s", "i", "o", "n">>)>>
                ELSE <<>>))

\* getCodeActions(document, range): the exception of parse propagates.
getCodeActions(p, extFault, d, range) ==
  LET pr == parse(p, extFault, d)
      node == getNodeAtPosition(d, range[1], range[2])
      lineText == GetTextRange(d, range[1], 0, range[1] + 1, 0)
      currentLine == GetTextRange(d, range[1], 0, range[1], 1000)
  IN IF pr.kind # "tree" THEN Thrown(ParseError(pr))
     ELSE ReturnedValue(
            (IF node # NoNode
                /\ (NodeType(d, node) = "match_fun" \/ findParentOfType(d, node, "match_fun") # NoNode)
             THEN <<CodeAction("Add catch-all pattern", "quickfix", range, <<"|", " ", "_", " ", "-", ">", " ", "(", ")", "\n">>)>>
             ELSE <<>>)
            \o (IF Trim(lineText) = <<";">>
                THEN <<CodeAction("Complete where clause", "quickfix", range, <<" ", "i", "d", "e", "n", "t", "i", "f", "i", "e", "r", " ", "=", " ", "e", "x", "p", "r", "e", "s", "s", "i", "o", "n">>)>>
                ELSE <<>>)
            \o (IF Trim(lineText) = <<"|">>
                THEN <<CodeAction("Complete pattern match", "quickfix", range, <<" ", "p", "a", "t", "t", "e", "r", "n", " ", "-", ">", " ", "e", "x", "p", "r", "e", "s", "s", "i", "o", "n">>)>>
                ELSE <<>>)
            \o (IF Includes(currentLine, <<"=">>) /\ ~Includes(currentLine, <<":">>)
                THEN <<CodeAction("Add type annotation", "refactor",
                                  <<range[1], range[2], range[1], range[2]>>, <<"v", "a", "l", "u", "e", " ", ":", " ", "t", "y", "p", "e", "\n">>)>>
                ELSE <<>>))

\* ------------------------------------------------------------------------
\* The server process: the parser handle, the initialize handshake, and the
\* call being made to an exported function or request handler.

VARIABLES
  parser,      \* the module-level parser handle
  initPhase,   \* the initialize request: "none", then "resolved"/"rejected" while the
               \* handler awaits initializeParser, then "responded"/"failed"
  call,        \* the call whose outcome is pending delivery, NoCall when idle
  ret          \* its outcome, NoOutcome when idle

vars == <<documents, outline, parser, initPhase, call, ret, settingsVars>>

InitFailure == "Error: the parser could not be created"

Call(fn, rev, via, extFault, d, line, char, k, fault) ==
  [fn |-> fn, rev |-> rev, via |-> via, phase |-> initPhase, parser |-> parser,
   extFault |-> extFault, doc |-> d, line |-> line, char |-> char, k |-> k, fault |-> fault,
   newName |-> <<>>, rangeEnd |-> <<0, 0>>]

NoCall ==
  [fn |-> "none", rev |-> "", via |-> "", phase |-> "", parser |-> "",
   extFault |-> FALSE, doc |-> 0, line |-> 0, char |-> 0, k |-> 0, fault |-> NoFault,
   newName |-> <<>>, rangeEnd |-> <<0, 0>>]

Init ==
  /\ documents = Docs
  /\ outline = NoOutline
  /\ parser = "unset"
  /\ initPhase = "none"
  /\ call = NoCall
  /\ ret = NoOutcome
  /\ SettingsInit
  /\ clientSettings = [maxNumberOfProblems |-> 1]

\* No call is pending and no handler is suspended at an await.
Idle == ret.status = "none" /\ initPhase \notin {"resolved", "rejected"}

\* The server serves requests once the initialize request has been answered.
Serving == Idle /\ initPhase = "responded"

\* The faults the external parser can show: parser.parse is reached only with a
\* handle, and then it may throw.
ExtFaults == IF parser = "unset" THEN {FALSE} ELSE BOOLEAN

\* A caller that uses the module as a library: it has no connection, so the
\* initialize request never arrives.
Library == Idle /\ initPhase = "none"

\* initializeParser() called directly.
InitializeParserCall ==
  /\ Library
  /\ \E outcome \in InitOutcomes :
       LET r == initializeParser(parser, outcome)
       IN /\ parser' = r.parser
          /\ call' = Call("initializeParser", "enhanced", "direct", FALSE, 0, 0, 0, 0, NoFault)
          /\ ret' = IF r.threw THEN Thrown(InitFailure) ELSE ReturnedVoid
  /\ UNCHANGED <<settingsVars, documents, outline, initPhase>>

\* connection.onInitialize, up to `await initializeParser()`: the client's
\* capabilities are recorded, the body of
\* initializeParser runs, and the handler is suspended on its promise.
OnInitialize ==
  /\ Library
  /\ \E capable \in BOOLEAN : hasConfigurationCapability' = capable
  /\ \E outcome \in InitOutcomes :
       LET r == initializeParser(parser, outcome)
       IN /\ parser' = r.parser
          /\ initPhase' = IF r.threw THEN "rejected" ELSE "resolved"
  /\ UNCHANGED <<settingsState, documents, outline, call, ret>>

\* connection.onInitialize, after the await: the capabilities are returned, or
\* the rejection becomes the error response of the request.
OnInitializeResume ==
  /\ initPhase \in {"resolved", "rejected"}
  /\ initPhase' = IF initPhase = "resolved" THEN "responded" ELSE "failed"
  /\ UNCHANGED <<settingsVars, documents, outline, parser, call, ret>>

\* parse(text) called directly.
ParseCall ==
  /\ Library
  /\ \E d \in DocIds, extFault \in ExtFaults :
       LET pr == parse(parser, extFault, d)
       IN /\ call' = Call("parse", "enhanced", "direct", extFault, d, 0, 0, 0, NoFault)
          /\ ret' = IF pr.kind = "throw" THEN Thrown(pr.error) ELSE ReturnedTree(pr.doc)
  /\ UNCHANGED <<settingsVars, documents, outline, parser, initPhase>>

\* validateScrapScript(text, maxNumberOfProblems), in each revision.
ValidateCall ==
  /\ Library
  /\ \E rev \in Revisions, d \in DocIds, k \in 0..MaxProblems, extFault \in ExtFaults :
       \E fault \in (IF rev = "enhanced" THEN Faults(d) ELSE {NoFault}) :
         /\ call' = Call("validateScrapScript", rev, "direct", extFault, d, 0, 0, k, fault)
         /\ ret' = ReturnedDiagnostics(Validate(rev, parser, extFault, d, k, fault))
  /\ UNCHANGED <<settingsVars, documents, outline, parser, initPhase>>

\* getCompletionItems(document, position) called directly.
CompletionCall ==
  /\ Library
  /\ \E d \in DocIds, extFault \in ExtFaults :
       \E pos \in Positions(d) :
         /\ call' = Call("getCompletionItems", "enhanced", "direct", extFault, d, pos[1], pos[2], 0, NoFault)
         /\ ret' = getCompletionItems(parser, extFault, d, pos[1], pos[2])
  /\ UNCHANGED <<settingsVars, documents, outline, parser, initPhase>>

\* getHoverInfo(document, position) called directly.
HoverCall ==
  /\ Library
  /\ \E d \in DocIds, extFault \in ExtFaults :
       \E pos \in Positions(d) :
         /\ call' = Call("getHoverInfo", "enhanced", "direct", extFault, d, pos[1], pos[2], 0, NoFault)
         /\ ret' = getHoverInfo(parser, extFault, d, pos[1], pos[2])
  /\ UNCHANGED <<settingsVars, documents, outline, parser, initPhase>>

\* connection.onCompletion: d = 0 is a document the server does not hold.
OnCompletion ==
  /\ Serving
  /\ \E d \in {0} \cup DocIds, extFault \in ExtFaults :
       \E pos \in (IF d = 0 THEN {<<0, 0>>} ELSE Positions(d)) :
         /\ call' = Call("getCompletionItems", "enhanced", "handler", extFault, d, pos[1], pos[2], 0, NoFault)
         /\ ret' = IF d = 0 THEN ReturnedItems(<<>>)
                   ELSE getCompletionItems(parser, extFault, d, pos[1], pos[2])
  /\ UNCHANGED <<settingsVars, documents, outline, parser, initPhase>>

\* connection.onHover
OnHover ==
  /\ Serving
  /\ \E d \in {0} \cup DocIds, extFault \in ExtFaults :
       \E pos \in (IF d = 0 THEN {<<0, 0>>} ELSE Positions(d)) :
         /\ call' = Call("getHoverInfo", "enhanced", "handler", extFault, d, pos[1], pos[2], 0, NoFault)
         /\ ret' = IF d = 0 THEN ReturnedHover(NoHover)
                   ELSE getHoverInfo(parser, extFault, d, pos[1], pos[2])
  /\ UNCHANGED <<settingsVars, documents, outline, parser, initPhase>>

\* The outcome reaches the caller; the process is ready for the next call.
Deliver ==
  /\ ret.status # "none"
  /\ call' = NoCall
  /\ ret' = NoOutcome
  /\ outline' = IF call.fn = "getDocumentSymbols" /\ call.doc # 0 /\ ret.status = "return"
                THEN [doc |-> call.doc, symbols |-> ret.value, between |-> FALSE]
                ELSE IF outline.doc # 0 THEN [outline EXCEPT !.between = TRUE]
                ELSE outline
  /\ UNCHANGED <<settingsVars, documents, parser, initPhase>>

Next ==
  \/ InitializeParserCall
  \/ OnInitialize
  \/ OnInitializeResume
  \/ ParseCall
  \/ ValidateCall
  \/ CompletionCall
  \/ HoverCall
  \/ OnCompletion
  \/ OnHover
  \/ Deliver

Spec == Init /\ [][Next]_vars


\* ------------------------------------------------------------------------
\* The outline, references and rename, over the documents with bindings.

\* The new names tried by a rename; they need not be identifiers.
NewNames == {<<"y">>, <<"1", " ", "b">>}

\* getDocumentSymbols(document) called directly.
DocumentSymbolsCall ==
  /\ Library
  /\ \E d \in DocIds, extFault \in ExtFaults :
       /\ call' = Call("getDocumentSymbols", "enhanced", "direct", extFault, d, 0, 0, 0, NoFault)
       /\ ret' = getDocumentSymbols(parser, extFault, d)
  /\ UNCHANGED <<settingsVars, documents, outline, parser, initPhase>>

\* findReferences(document, position) called directly.
ReferencesCall ==
  /\ Library
  /\ \E d \in DocIds, extFault \in ExtFaults :
       \E pos \in Positions(d) :
         /\ call' = Call("findReferences", "enhanced", "direct", extFault, d, pos[1], pos[2], 0, NoFault)
         /\ ret' = findReferences(parser, extFault, d, pos[1], pos[2])
  /\ UNCHANGED <<settingsVars, documents, outline, parser, initPhase>>

\* prepareRename(document, position) called directly.
PrepareRenameCall ==
  /\ Library
  /\ \E d \in DocIds, extFault \in ExtFaults :
       \E pos \in Positions(d) :
         /\ call' = Call("prepareRename", "enhanced", "direct", extFault, d, pos[1], pos[2], 0, NoFault)
         /\ ret' = prepareRename(parser, extFault, d, pos[1], pos[2])
  /\ UNCHANGED <<settingsVars, documents, outline, parser, initPhase>>

\* executeRename(document, position, newName) called directly.
RenameCall ==
  /\ Library
  /\ \E d \in DocIds, extFault \in ExtFaults, newName \in NewNames :
       \E pos \in Positions(d) :
         /\ call' = [Call("executeRename", "enhanced", "direct", extFault, d, pos[1], pos[2], 0, NoFault)
                       EXCEPT !.newName = newName]
         /\ ret' = executeRename(parser, extFault, d, pos[1], pos[2], newName)
  /\ UNCHANGED <<settingsVars, documents, outline, parser, initPhase>>

\* connection.onDocumentSymbol: d = 0 is a document the server does not hold.
OnDocumentSymbol ==
  /\ Serving
  /\ \E d \in {0} \cup DocIds, extFault \in ExtFaults :
       /\ call' = Call("getDocumentSymbols", "enhanced", "handler", extFault, d, 0, 0, 0, NoFault)
       /\ ret' = IF d = 0 THEN ReturnedValue(<<>>) ELSE getDocumentSymbols(parser, extFault, d)
  /\ UNCHANGED <<settingsVars, documents, outline, parser, initPhase>>

\* connection.onReferences
OnReferences ==
  /\ Serving
  /\ \E d \in {0} \cup DocIds, extFault \in ExtFaults :
       \E pos \in (IF d = 0 THEN {<<0, 0>>} ELSE Positions(d)) :
         /\ call' = Call("findReferences", "enhanced", "handler", extFault, d, pos[1], pos[2], 0, NoFault)
         /\ ret' = IF d = 0 THEN ReturnedValue(<<>>)
                   ELSE findReferences(parser, extFault, d, pos[1], pos[2])
  /\ UNCHANGED <<settingsVars, documents, outline, parser, initPhase>>

\* connection.onPrepareRename
OnPrepareRename ==
  /\ Serving
  /\ \E d \in {0} \cup DocIds, extFault \in ExtFaults :
       \E pos \in (IF d = 0 THEN {<<0, 0>>} ELSE Positions(d)) :
         /\ call' = Call("prepareRename", "enhanced", "handler", extFault, d, pos[1], pos[2], 0, NoFault)
         /\ ret' = IF d = 0 THEN ReturnedValue(Null)
                   ELSE prepareRename(parser, extFault, d, pos[1], pos[2])
  /\ UNCHANGED <<settingsVars, documents, outline, parser, initPhase>>

\* connection.onRenameRequest
OnRenameRequest ==
  /\ Serving
  /\ \E d \in {0} \cup DocIds, extFault \in ExtFaults, newName \in NewNames :
       \E pos \in (IF d = 0 THEN {<<0, 0>>} ELSE Positions(d)) :
         /\ call' = [Call("executeRename", "enhanced", "handler", extFault, d, pos[1], pos[2], 0, NoFault)
                       EXCEPT !.newName = newName]
         /\ ret' = IF d = 0 THEN ReturnedValue(Null)
                   ELSE executeRename(parser, extFault, d, pos[1], pos[2], newName)
  /\ UNCHANGED <<settingsVars, documents, outline, parser, initPhase>>

\* The process started with the documents that hold bindings.
OutlineInit ==
  /\ documents = OutlineDocs
  /\ outline = NoOutline
  /\ parser = "unset"
  /\ initPhase = "none"
  /\ call = NoCall
  /\ ret = NoOutcome
  /\ SettingsInit
  /\ clientSettings = [maxNumberOfProblems |-> 1]

OutlineNext ==
  \/ Next
  \/ DocumentSymbolsCall
  \/ ReferencesCall
  \/ PrepareRenameCall
  \/ RenameCall
  \/ OnDocumentSymbol
  \/ OnReferences
  \/ OnPrepareRename
  \/ OnRenameRequest

OutlineSpec == OutlineInit /\ [][OutlineNext]_vars

\* ------------------------------------------------------------------------
\* Settings: the per-document cache, the configuration notification and the
\* validations that wait for their settings.

\* The number of configuration notifications handled so far.
Epoch == Len(notified)

\* documents.all(): the uris of the open documents.
OpenUris == {u \in Uris : openDocuments[u] # 0}

\* The part of the server a validation reads and writes.
ServerState(cache, ps, vs, msgs) ==
  [documentSettings |-> cache, promises |-> ps, validations |-> vs, sent |-> msgs]

\* A promise that no cache entry and no suspended validation holds is dropped.
Collect(st) ==
  [st EXCEPT !.promises =
     [p \in DOMAIN st.promises |->
        IF \/ \E u \in DOMAIN st.documentSettings : st.documentSettings[u] = p
           \/ \E i \in 1..Len(st.validations) : st.validations[i].promise = p
        THEN st.promises[p] ELSE NoPromise]]

FreePromise(ps) ==
  CHOOSE p \in DOMAIN ps :
    ps[p].state = "free" /\ \A q \in DOMAIN ps : ps[q].state = "free" => p <= q

\* documentSettings.delete(e.document.uri), left undone
onDidCloseKeepingSettings(cache, uri) == cache

\* documents.onDidClose: documentSettings.delete(e.document.uri)
onDidClose(cache, uri) == [u \in DOMAIN cache \ {uri} |-> cache[u]]

\* onDidChangeConfiguration without documentSettings.clear()
onDidChangeConfigurationKeepingCache(capable, cache, global, section) ==
  IF capable
  THEN [documentSettings |-> cache, globalSettings |-> global]
  ELSE [documentSettings |-> cache,
        globalSettings |-> IF section = <<>> THEN defaultSettings ELSE section[1]]

\* connection.onDidChangeConfiguration, before the revalidation: the cache is
\* cleared, or the global settings are replaced by the section of the
\* notification (by the defaults when it has none).
onDidChangeConfiguration(capable, cache, global, section) ==
  IF capable
  THEN [documentSettings |-> NoSettings, globalSettings |-> global]
  ELSE [documentSettings |-> cache,
        globalSettings |-> IF section = <<>> THEN defaultSettings ELSE section[1]]

\* getDocumentSettings: the promise of the settings of a document, and the
\* server after the call. Without the capability it is Promise.resolve of the
\* global settings (id 0); with it, the cached promise, or a new
\* workspace/configuration request that is cached. epoch is the number of
\* notifications handled, the present one included.
getDocumentSettings(capable, global, st, resource, epoch) ==
  IF ~capable
  THEN [st |-> st, id |-> 0,
        promise |-> [state |-> "settled", uri |-> resource, asked |-> epoch, value |-> global]]
  ELSE IF resource \in DOMAIN st.documentSettings
  THEN [st |-> st, id |-> st.documentSettings[resource],
        promise |-> st.promises[st.documentSettings[resource]]]
  ELSE LET p == FreePromise(st.promises)
           request == [state |-> "pending", uri |-> resource, asked |-> epoch,
                       value |-> defaultSettings]
       IN [st |-> [st EXCEPT !.promises[p] = request,
                             !.documentSettings =
                                [u \in DOMAIN @ \cup {resource} |->
                                   IF u = resource THEN p ELSE @[u]]],
           id |-> p, promise |-> request]

\* connection.sendDiagnostics of a validation that has its settings; settings,
\* started and asked record which settings capped it, the number of
\* notifications handled when it started and when its settings were requested.
Published(p, extFault, uri, text, promise, started) ==
  [uri |-> uri,
   diagnostics |-> validateScrapScript(p, extFault, text, promise.value.maxNumberOfProblems, NoFault),
   settings |-> promise.value, started |-> started, asked |-> promise.asked]

\* validateTextDocument: with settled settings it runs to its end in this
\* turn of the event loop; otherwise it is suspended at the await.
validateTextDocument(capable, global, p, extFault, st, uri, text, epoch) ==
  LET g == getDocumentSettings(capable, global, st, uri, epoch)
  IN IF g.promise.state = "settled"
     THEN [g.st EXCEPT !.sent = Append(@, Published(p, extFault, uri, text, g.promise, epoch))]
     ELSE [g.st EXCEPT !.validations =
             Append(@, [uri |-> uri, text |-> text, live |-> TRUE, promise |-> g.id,
                        started |-> epoch])]

\* documents.all().forEach(validateTextDocument)
RECURSIVE validateAll(_, _, _, _, _, _, _)
validateAll(capable, global, p, extFault, st, uris, epoch) ==
  IF uris = {} THEN st
  ELSE LET u == CHOOSE v \in uris : \A w \in uris : v <= w
       IN validateAll(capable, global, p, extFault,
                      validateTextDocument(capable, global, p, extFault, st, u, openDocuments[u], epoch),
                      uris \ {u}, epoch)

\* The validations suspended on promise id resume, in the order they were
\* suspended, each with the text its document has by then.
RECURSIVE resume(_, _, _, _, _)
resume(p, extFault, st, id, i) ==
  IF i > Len(st.validations) THEN st
  ELSE LET v == st.validations[i]
       IN IF v.promise # id THEN resume(p, extFault, st, id, i + 1)
          ELSE resume(p, extFault,
                      [st EXCEPT !.validations = SubSeq(@, 1, i - 1) \o SubSeq(@, i + 1, Len(@)),
                                 !.sent = Append(@, Published(p, extFault, v.uri, v.text,
                                                              st.promises[id], v.started))],
                      id, i)

Here == ServerState(documentSettings, promises, validations, <<>>)

\* The server after a handler: the promises nobody holds are dropped.
Becomes(st) ==
  LET c == Collect(st)
  IN /\ documentSettings' = c.documentSettings
     /\ promises' = c.promises
     /\ validations' = c.validations
     /\ sent' = c.sent

\* textDocument/didOpen: the document is added to documents, and
\* onDidChangeContent validates it.
DidOpen ==
  /\ Serving
  /\ Len(validations) < MaxPending
  /\ \E u \in Uris, text \in Texts, extFault \in ExtFaults :
       /\ openDocuments[u] = 0
       /\ openDocuments' = [openDocuments EXCEPT ![u] = text]
       /\ Becomes(validateTextDocument(hasConfigurationCapability, globalSettings, parser, extFault,
                                       Here, u, text, Epoch))
       /\ event' = [kind |-> "open", uri |-> u, before |-> documentSettings]
  /\ UNCHANGED <<documents, outline, parser, initPhase, call, ret, hasConfigurationCapability,
                 globalSettings, clientSettings, notified>>

\* textDocument/didChange: the document object is updated in place, so that a
\* validation of it that is still suspended reads the new text too, and
\* onDidChangeContent validates it.
DidChangeContent ==
  /\ Serving
  /\ Len(validations) < MaxPending
  /\ \E u \in OpenUris, text \in Texts, extFault \in ExtFaults :
       LET edited == [i \in 1..Len(validations) |->
                        IF validations[i].uri = u /\ validations[i].live
                        THEN [validations[i] EXCEPT !.text = text] ELSE validations[i]]
       IN /\ openDocuments' = [openDocuments EXCEPT ![u] = text]
          /\ Becomes(validateTextDocument(hasConfigurationCapability, globalSettings, parser, extFault,
                                          ServerState(documentSettings, promises, edited, <<>>),
                                          u, text, Epoch))
          /\ event' = [kind |-> "change", uri |-> u, before |-> documentSettings]
  /\ UNCHANGED <<documents, outline, parser, initPhase, call, ret, hasConfigurationCapability,
                 globalSettings, clientSettings, notified>>

\* textDocument/didClose: the document leaves documents and onDidClose drops
\* its cache entry; a suspended validation keeps the document object.
DidClose ==
  /\ Serving
  /\ \E u \in OpenUris :
       LET detached == [i \in 1..Len(validations) |->
                          IF validations[i].uri = u
                          THEN [validations[i] EXCEPT !.live = FALSE] ELSE validations[i]]
       IN /\ openDocuments' = [openDocuments EXCEPT ![u] = 0]
          /\ Becomes(ServerState(onDidClose(documentSettings, u), promises, detached, <<>>))
          /\ event' = [kind |-> "close", uri |-> u, before |-> documentSettings]
  /\ UNCHANGED <<documents, outline, parser, initPhase, call, ret, hasConfigurationCapability,
                 globalSettings, clientSettings, notified>>

\* workspace/didChangeConfiguration: the client's configuration has changed
\* (to the section it sends, when it sends one); the handler drops the cache
\* or replaces the global settings, and revalidates every open document.
DidChangeConfiguration ==
  /\ Serving
  /\ Epoch < MaxChanges
  /\ Len(validations) + Cardinality(OpenUris) <= MaxPending
  /\ \E section \in Sections, extFault \in ExtFaults :
       LET client == IF section = <<>> THEN clientSettings ELSE section[1]
           r == onDidChangeConfiguration(hasConfigurationCapability, documentSettings,
                                         globalSettings, section)
       IN /\ clientSettings' = client
          /\ notified' = Append(notified, [section |-> section, client |-> client])
          /\ globalSettings' = r.globalSettings
          /\ Becomes(validateAll(hasConfigurationCapability, r.globalSettings, parser, extFault,
                                 ServerState(r.documentSettings, promises, validations, <<>>),
                                 OpenUris, Epoch + 1))
          /\ event' = [kind |-> "config", uri |-> 0, before |-> documentSettings]
  /\ UNCHANGED <<documents, outline, parser, initPhase, call, ret, hasConfigurationCapability,
                 openDocuments>>

\* The client answers a workspace/configuration request with its present
\* configuration: the promise settles and the validations suspended on it
\* send their diagnostics.
ConfigurationResponse ==
  /\ Serving
  /\ \E id \in DOMAIN promises, extFault \in ExtFaults :
       /\ promises[id].state = "pending"
       /\ Becomes(resume(parser, extFault,
                         ServerState(documentSettings,
                                     [promises EXCEPT ![id].state = "settled",
                                                      ![id].value = clientSettings],
                                     validations, <<>>),
                         id, 1))
       /\ event' = [kind |-> "response", uri |-> promises[id].uri, before |-> documentSettings]
  /\ UNCHANGED <<documents, outline, parser, initPhase, call, ret, hasConfigurationCapability,
                 globalSettings, openDocuments, clientSettings, notified>>

\* The server process of a client that opens, edits and closes documents and
\* changes its configuration.
SettingsInitial ==
  /\ documents = Docs
  /\ outline = NoOutline
  /\ parser = "unset"
  /\ initPhase = "none"
  /\ call = NoCall
  /\ ret = NoOutcome
  /\ SettingsInit
  /\ clientSettings \in ClientSettings

SettingsNext ==
  \/ OnInitialize
  \/ OnInitializeResume
  \/ DidOpen
  \/ DidChangeContent
  \/ DidClose
  \/ DidChangeConfiguration
  \/ ConfigurationResponse

SettingsSpec == SettingsInitial /\ [][SettingsNext]_vars

\* ------------------------------------------------------------------------
\* The process started with the sample documents for the structural validators.
ValidatorInit ==
  /\ documents = ValidatorDocs
  /\ outline = NoOutline
  /\ parser = "unset"
  /\ initPhase = "none"
  /\ call = NoCall
  /\ ret = NoOutcome
  /\ SettingsInit
  /\ clientSettings = [maxNumberOfProblems |-> 1]

ValidatorSpec == ValidatorInit /\ [][Next]_vars

\* The process started with the sample documents for completion, hover and
\* code actions.
EditorInit ==
  /\ documents = EditorDocs
  /\ outline = NoOutline
  /\ parser = "unset"
  /\ initPhase = "none"
  /\ call = NoCall
  /\ ret = NoOutcome
  /\ SettingsInit
  /\ clientSettings = [maxNumberOfProblems |-> 1]

\* getHoverInfo(document, position) of hover.ts called directly.
HoverModuleCall ==
  /\ Library
  /\ \E d \in DocIds, extFault \in ExtFaults :
       \E pos \in Positions(d) :
         /\ call' = Call("getHoverInfo", "module", "direct", extFault, d, pos[1], pos[2], 0, NoFault)
         /\ ret' = getHoverInfoModule(parser, extFault, d, pos[1], pos[2])
  /\ UNCHANGED <<settingsVars, documents, outline, parser, initPhase>>

\* The ends tried for a range that starts at <<line, char>>: the range start
\* and the start of each of the following MaxRangeLines lines.
MaxRangeLines == 2

RangeEnds(line, char) == {<<line, char>>} \cup {<<line + n, 0>> : n \in 1..MaxRangeLines}

\* getCodeActions(document, range) called directly.
CodeActionsCall ==
  /\ Library
  /\ \E d \in DocIds, extFault \in ExtFaults :
       \E pos \in Positions(d) :
         \E end \in RangeEnds(pos[1], pos[2]) :
           /\ call' = [Call("getCodeActions", "enhanced", "direct", extFault, d, pos[1], pos[2], 0, NoFault)
                         EXCEPT !.rangeEnd = end]
           /\ ret' = getCodeActions(parser, extFault, d, <<pos[1], pos[2], end[1], end[2]>>)
  /\ UNCHANGED <<settingsVars, documents, outline, parser, initPhase>>

\* connection.onCodeAction: d = 0 is a document the server does not hold.
OnCodeAction ==
  /\ Serving
  /\ \E d \in {0} \cup DocIds, extFault \in ExtFaults :
       \E pos \in (IF d = 0 THEN {<<0, 0>>} ELSE Positions(d)) :
         \E end \in RangeEnds(pos[1], pos[2]) :
           /\ call' = [Call("getCodeActions", "enhanced", "handler", extFault, d, pos[1], pos[2], 0, NoFault)
                         EXCEPT !.rangeEnd = end]
           /\ ret' = IF d = 0 THEN ReturnedValue(<<>>)
                     ELSE getCodeActions(parser, extFault, d, <<pos[1], pos[2], end[1], end[2]>>)
  /\ UNCHANGED <<settingsVars, documents, outline, parser, initPhase>>

EditorNext ==
  \/ Next
  \/ HoverModuleCall
  \/ CodeActionsCall
  \/ OnCodeAction

EditorSpec == EditorInit /\ [][EditorNext]_vars

\* ------------------------------------------------------------------------
\* Properties.

\* What the parse step of the pending call did.
ParseOutcome == parse(call.parser, call.extFault, call.doc)

Validated == call.fn = "validateScrapScript"

Completed == call.fn = "getCompletionItems" /\ call.doc # 0

Hovered == call.fn = "getHoverInfo" /\ call.doc # 0

\* The root of the pending call's document reports hasError.
RootHasError == NodeRec(call.doc, RootNode(call.doc)).hasError

\* C1: validateScrapScript(text, k) returns at most k diagnostics (so none for
\* k = 0), on the normal path and when parsing throws, in every revision.
C1_TruncationLaw ==
  Validated => (ret.status = "return" /\ Len(ret.diags) <= call.k)

\* C2: when the parse step of validateScrapScript raises an exception, the call
\* returns and, for a cap of at least one, its result is exactly one Error
\* diagnostic at (0,0)-(0,0) whose message embeds the reason.
C2_CatastrophicFailure ==
  (Validated /\ ParseOutcome.kind # "tree") =>
    /\ ret.status = "return"
    /\ call.k >= 1 =>
         ret.diags = << [severity |-> "Error", range |-> <<0, 0, 0, 0>>,
                         message |-> <<"Failed to parse ScrapScript: ", ParseError(ParseOutcome)>>,
                         source |-> "scrapscript"] >>

\* A validation before initializeParser has run, with a cap of at least one,
\* has returned the diagnostic that carries 'Parser not initialized'.
C2_Witness ==
  /\ Validated
  /\ call.parser = "unset"
  /\ call.k >= 1
  /\ Len(ret.diags) = 1
  /\ ret.diags[1].message[2] = "Error: Parser not initialized"

\* Everything the error-node pass and the six validators report on document d.
AllFindings(d) ==
  ErrorNodeDiagnostics(d) \o Flatten([v \in 1..Len(Validators) |-> ValidatorDiagnostics(d, v)])

Reported(diag) == \E j \in 1..Len(ret.diags) : ret.diags[j] = diag

\* C3: when one structural validator throws, the diagnostics of every other
\* validator, before and after it, are still in the returned array (the cap
\* being large enough to hold them all).
C3_ValidatorIsolation ==
  (/\ Validated
   /\ call.rev = "enhanced"
   /\ ParseOutcome.kind = "tree"
   /\ call.fault.at # 0
   /\ call.k >= Len(AllFindings(call.doc)) + 1) =>
    \A v \in 1..Len(Validators) :
      v # call.fault.at =>
        \A i \in 1..Len(ValidatorDiagnostics(call.doc, v)) :
          Reported(ValidatorDiagnostics(call.doc, v)[i])

\* The messages createDiagnosticForError and its earlier revision give to error nodes.
ParseErrorMessages ==
  {ErrorMessages[t] : t \in DOMAIN ErrorMessages}
  \cup {EarlierErrorMessages[t] : t \in DOMAIN EarlierErrorMessages}

IsParseErrorDiagnostic(diag) ==
  diag.message \in ParseErrorMessages \/ diag.message[1] = "Syntax error in "

FromValidator(d, diag) ==
  \E v \in 1..Len(Validators) :
    \E i \in 1..Len(ValidatorDiagnostics(d, v)) : ValidatorDiagnostics(d, v)[i] = diag

\* C4: for a document whose root has hasError = false, validateScrapScript
\* returns no diagnostic derived from an ERROR node: every diagnostic comes from
\* a structural validator (or is the catch block's, when a validator threw).
C4_NoParseErrorWhenClean ==
  (Validated /\ ParseOutcome.kind = "tree" /\ ~RootHasError) =>
    \A i \in 1..Len(ret.diags) :
      /\ ~IsParseErrorDiagnostic(ret.diags[i])
      /\ \/ call.rev = "enhanced" /\ FromValidator(call.doc, ret.diags[i])
         \/ call.fault.at # 0 /\ ret.diags[i].message[1] = "Failed to parse ScrapScript: "

\* A clean document has been validated and a structural validator has reported on it.
C4_Witness ==
  /\ Validated
  /\ ParseOutcome.kind = "tree"
  /\ ~RootHasError
  /\ call.fault.at = 0
  /\ Len(ret.diags) >= 1
  /\ FromValidator(call.doc, ret.diags[1])

\* C5: for a document whose tree has hasError = true at the root and a cap of at
\* least one, validateScrapScript returns a non-empty array whose first entry
\* has Error severity.
C5_ErrorFirstWhenHasError ==
  (Validated /\ ParseOutcome.kind = "tree" /\ RootHasError /\ call.k >= 1) =>
    /\ Len(ret.diags) >= 1
    /\ ret.diags[1].severity = "Error"

\* C6: getCompletionItems and getHoverInfo never throw, whatever the document,
\* the position and the state of the parser.
C6_CompletionAndHoverNeverThrow ==
  call.fn \in {"getCompletionItems", "getHoverInfo"} => ret.status = "return"

CursorPrefix == LineText(call.doc, call.line, call.char)

\* C8: when the cursor's line up to the cursor contains '#', getCompletionItems
\* returns the tag catalog: every item is an EnumMember and the labels include
\* true, false, ok and error.
C8_TagCatalogAfterHash ==
  (Completed /\ ret.status = "return" /\ Includes(CursorPrefix, <<"#">>)) =>
    /\ Len(ret.items) >= 1
    /\ \A i \in 1..Len(ret.items) : ret.items[i].kind = "EnumMember"
    /\ {<<"t", "r", "u", "e">>, <<"f", "a", "l", "s", "e">>, <<"o", "k">>, <<"e", "r", "r", "o", "r">>} \subseteq {ret.items[i].label : i \in 1..Len(ret.items)}

\* Completion has answered with the cursor right after a '#' on a line that
\* begins a where clause.
C8_Witness ==
  /\ Completed
  /\ ret.status = "return"
  /\ CursorPrefix # <<>>
  /\ CursorPrefix[Len(CursorPrefix)] = "#"
  /\ StartsWith(Trim(CursorPrefix), <<";">>)
  /\ Len(ret.items) >= 1

\* The context the classifier gives the pending completion call.
CursorContext ==
  analyzeCompletionContext(call.doc, call.line, call.char,
                           getNodeAtPosition(call.doc, call.line, call.char))

\* C9: in the where-clause context getCompletionItems returns one snippet whose
\* label and insert text are the template "; identifier = expression", followed
\* by the complete global catalog.
C9_WhereClauseSnippet ==
  (Completed /\ ret.status = "return" /\ CursorContext.type = "where_clause") =>
    /\ Len(ret.items) >= 1
    /\ ret.items[1].kind = "Snippet"
    /\ ret.items[1].label = <<";", " ", "i", "d", "e", "n", "t", "i", "f", "i", "e", "r", " ", "=", " ", "e", "x", "p", "r", "e", "s", "s", "i", "o", "n">>
    /\ Head(ret.items[1].insertText) = ";"
    /\ Tail(ret.items) = getGlobalCompletions

HoverTypes == {"id", "op", "tag", "number", "text", "bytes"} \cup DOMAIN StructuralHover

\* The node whose case of getEnhancedHoverForNode answers a hover on node n.
RECURSIVE HoverTarget(_, _)
HoverTarget(d, n) ==
  IF n = NoNode \/ NodeType(d, n) \in HoverTypes THEN n ELSE HoverTarget(d, Parent(d, n))

CursorTarget == HoverTarget(call.doc, getNodeAtPosition(call.doc, call.line, call.char))

\* The documentation table of a kind of node, and the key of node n in it.
TableOf(type) ==
  CASE type = "id" -> builtInInfo
    [] type = "op" -> operatorInfo
    [] OTHER -> tagInfo

KeyOf(d, n) ==
  IF NodeType(d, n) = "tag" /\ NamedChild(d, n, 0) # NoNode
  THEN getNodeText(d, NamedChild(d, n, 0))
  ELSE getNodeText(d, n)

KindOf(type) ==
  CASE type = "id" -> <<"(", "I", "d", "e", "n", "t", "i", "f", "i", "e", "r", ")">>
    [] type = "op" -> <<"(", "O", "p", "e", "r", "a", "t", "o", "r", ")">>
    [] OTHER -> <<"(", "T", "a", "g", ")">>

\* C10: hover on an identifier, operator or tag is never null: it is the entry
\* of the documentation table when there is one, and otherwise a generic text
\* that quotes the node's text and names its kind, "`<text>` (Kind)".
C10_HoverOnNames ==
  (/\ Hovered
   /\ ret.status = "return"
   /\ CursorTarget # NoNode
   /\ NodeType(call.doc, CursorTarget) \in {"id", "op", "tag"}) =>
    LET type == NodeType(call.doc, CursorTarget)
        key == KeyOf(call.doc, CursorTarget)
        text == getNodeText(call.doc, CursorTarget)
    IN /\ ~ret.hover.null
       /\ IF key \in DOMAIN TableOf(type)
          THEN ret.hover.value = TableOf(type)[key]
          ELSE /\ Includes(ret.hover.value, <<Backtick>> \o text \o <<Backtick>>)
               /\ Includes(ret.hover.value, KindOf(type))


\* The node under the cursor of the pending call.
CursorNode == getNodeAtPosition(call.doc, call.line, call.char)

HoveredNumber ==
  /\ Hovered
  /\ ret.status = "return"
  /\ NodeType(call.doc, CursorNode) = "number"

\* C11: hover on a number literal without '.' shows the binary and hexadecimal
\* forms exactly when its value n is in 0..1000000 and the single-byte form
\* exactly when n is in 0..255; hover on a literal with '.' is labelled Float,
\* echoes the parsed value and shows no conversions.
C11_NumericHover ==
  HoveredNumber =>
    LET text == getNodeText(call.doc, CursorNode)
        n == parseInt(text)
        v == ret.hover.value
    IN /\ ~ret.hover.null
       /\ IF Includes(text, <<".">>)
          THEN /\ Includes(v, <<"(", "F", "l", "o", "a", "t", ")">>)
               /\ Includes(v, <<"F", "l", "o", "a", "t", "i", "n", "g", "-", "p", "o", "i", "n", "t", " ", "n", "u", "m", "b", "e", "r", ":", " ">> \o FormatFloat(text))
               /\ ~Includes(v, <<"C", "o", "n", "v", "e", "r", "s", "i", "o", "n", "s">>) /\ ~Includes(v, <<"B", "i", "n", "a", "r", "y">>) /\ ~Includes(v, <<"H", "e", "x">>)
               /\ ~Includes(v, <<"B", "y", "t", "e">>)
          ELSE /\ Includes(v, <<"(", "I", "n", "t", "e", "g", "e", "r", ")">>)
               /\ (n >= 0 /\ n <= 1000000) <=>
                    (/\ Includes(v, <<"-", " ", "B", "i", "n", "a", "r", "y", ":", " ", Backtick>> \o ToBase(n, 2) \o <<Backtick>>)
                     /\ Includes(v, <<"-", " ", "H", "e", "x", ":", " ", Backtick, "0", "x">> \o ToBase(n, 16) \o <<Backtick>>))
               /\ ~(n >= 0 /\ n <= 1000000) => (~Includes(v, <<"B", "i", "n", "a", "r", "y">>) /\ ~Includes(v, <<"H", "e", "x">>))
               /\ (n >= 0 /\ n <= 255) <=>
                    Includes(v, <<"-", " ", "B", "y", "t", "e", ":", " ", Backtick, ";">> \o PadStart(ToBase(n, 16), 2, "0") \o <<Backtick>>)
               /\ ~(n >= 0 /\ n <= 255) => ~Includes(v, <<"B", "y", "t", "e">>)

\* Hover has answered on the literal 255, the largest value with a byte form.
C11_Witness ==
  /\ HoveredNumber
  /\ getNodeText(call.doc, CursorNode) = <<"2", "5", "5">>
  /\ Includes(ret.hover.value, <<"-", " ", "B", "y", "t", "e", ":", " ", Backtick, ";", "F", "F", Backtick>>)

\* The ERROR nodes of document d in document order.  The nodes of a tree are
\* numbered in pre-order over all children.
ErrorNodesInOrder(d) ==
  SelectSeq([n \in 1..Len(documents[d].nodes) |-> n], LAMBDA n : NodeType(d, n) = "ERROR")

\* C20: when the root has hasError, the result of validateScrapScript holds one
\* Error diagnostic for each ERROR node of the tree, named or anonymous and at
\* any depth, with the node's span as range, in document order (the first k of
\* them under a cap of k), and no other diagnostic derived from an error node.
C20_OneDiagnosticPerErrorNode ==
  (Validated /\ ParseOutcome.kind = "tree" /\ RootHasError) =>
    LET errs == ErrorNodesInOrder(call.doc)
        m == Min(call.k, Len(errs))
    IN /\ Len(ret.diags) >= m
       /\ \A i \in 1..m :
            /\ ret.diags[i].severity = "Error"
            /\ ret.diags[i].range = nodeToRange(call.doc, errs[i])
            /\ IsParseErrorDiagnostic(ret.diags[i])
       /\ \A i \in (m + 1)..Len(ret.diags) : ~IsParseErrorDiagnostic(ret.diags[i])

\* A document with three ERROR nodes, one of them anonymous with another nested
\* in it, has been validated under a cap that holds them all.
C20_Witness ==
  /\ Validated
  /\ ParseOutcome.kind = "tree"
  /\ Len(ErrorNodesInOrder(call.doc)) = 3
  /\ \E i \in 1..3 : ~NodeRec(call.doc, ErrorNodesInOrder(call.doc)[i]).named
  /\ call.k >= 3
  /\ Len(ret.diags) >= 3
  /\ ret.diags[3].range = nodeToRange(call.doc, ErrorNodesInOrder(call.doc)[3])

Outlined == call.fn = "getDocumentSymbols" /\ call.doc # 0 /\ ret.status = "return"

\* A where node that binds a name itself, with the children ";" id "=" expression.
FlatBinding(d, n) ==
  /\ NodeType(d, n) = "where"
  /\ \E i \in 0..(Len(Children(d, n)) - 3) :
       NodeType(d, Child(d, n, i)) = ";" /\ NodeType(d, Child(d, n, i + 1)) = "id"

\* The declarations of document d in document order: the declaration and type
\* declaration nodes and the where nodes that bind a name themselves.
DeclarationsInOrder(d) ==
  SelectSeq([n \in 1..Len(documents[d].nodes) |-> n],
            LAMBDA n : NodeType(d, n) \in {"declaration", "type_declaration"} \/ FlatBinding(d, n))

\* The pattern of a declaration: its first child, or the identifier after ";".
PatternOf(d, n) ==
  IF FlatBinding(d, n)
  THEN LET i == CHOOSE i \in 0..(Len(Children(d, n)) - 3) :
                  /\ NodeType(d, Child(d, n, i)) = ";" /\ NodeType(d, Child(d, n, i + 1)) = "id"
                  /\ \A j \in 0..(i - 1) :
                       ~(NodeType(d, Child(d, n, j)) = ";" /\ NodeType(d, Child(d, n, j + 1)) = "id")
       IN Child(d, n, i + 1)
  ELSE Child(d, n, 0)

\* C12: getDocumentSymbols returns one symbol per declaration of the document,
\* in document (pre-order) order, each named after the declaration's pattern.
C12_OneSymbolPerDeclaration ==
  Outlined =>
    LET decls == DeclarationsInOrder(call.doc)
    IN /\ Len(ret.value) = Len(decls)
       /\ \A i \in 1..Len(decls) :
            ret.value[i].name = getSymbolName(call.doc, PatternOf(call.doc, decls[i]))

SymbolNodes(d) ==
  findNodesOfType(d, "declaration") \o findWhereClauseDeclarations(d)
  \o findNodesOfType(d, "type_declaration")

\* The kind the mapping of C14 gives the declaration node n.
StatedKind(d, n) ==
  LET named == NamedChildren(d, n)
      type == IF named = <<>> THEN "" ELSE NodeType(d, named[Len(named)])
  IN CASE type \in {"fun", "match_fun"} -> "Function"
       [] type = "record" -> "Object"
       [] type = "list" -> "Array"
       [] type = "number" -> "Number"
       [] type \in {"text", "bytes"} -> "String"
       [] type = "tag" -> "Enum"
       [] OTHER -> IF Len(named) >= 2 /\ NodeType(d, named[2]) = "id" THEN "Class" ELSE "Variable"

\* C14: the kind of a symbol follows the type of the declaration's last named
\* child: fun or match_fun gives Function, record Object, list Array, number
\* Number, text or bytes String, tag Enum; otherwise a declaration with two or
\* more named children whose second named child is an identifier gives Class,
\* and everything else gives Variable.
C14_SymbolKindMapping ==
  Outlined =>
    \A i \in 1..Len(ret.value) :
      ret.value[i].kind = StatedKind(call.doc, SymbolNodes(call.doc)[i])

Prepared == call.fn = "prepareRename" /\ call.doc # 0 /\ ret.status = "return"

\* The names that cannot be renamed.
Reserved == {BUILT_IN_FUNCTIONS[i] : i \in 1..Len(BUILT_IN_FUNCTIONS)} \cup {KEYWORDS[i] : i \in 1..Len(KEYWORDS)}

\* C15: prepareRename returns null when the node at the position is not an
\* identifier and when it is an identifier named like a keyword or a built-in
\* function; for every other identifier it returns the node's range with the
\* identifier as placeholder.
C15_RenamePrecondition ==
  Prepared =>
    LET text == getNodeText(call.doc, CursorNode)
    IN IF NodeType(call.doc, CursorNode) # "id" \/ text \in Reserved
       THEN ret.value.null
       ELSE /\ ~ret.value.null
            /\ ret.value.value = [range |-> nodeToRange(call.doc, CursorNode), placeholder |-> text]

\* prepareRename has declined the built-in to-int and, in another call,
\* accepted an identifier.
C15_Witness ==
  /\ Prepared
  /\ NodeType(call.doc, CursorNode) = "id"
  /\ getNodeText(call.doc, CursorNode) = <<"t", "o", "-", "i", "n", "t">>
  /\ ret.value.null

Referenced == call.fn = "findReferences" /\ call.doc # 0 /\ ret.status = "return"

\* The identifier nodes of document d with the given text, in document order.
IdentifiersNamed(d, text) ==
  SelectSeq([n \in 1..Len(documents[d].nodes) |-> n],
            LAMBDA n : NodeType(d, n) = "id" /\ getNodeText(d, n) = text)

\* C16: findReferences returns the empty list when the node at the position is
\* not an identifier; otherwise it returns, in document order, the span of
\* every identifier node with the target's text and of no other node, the
\* target's own span among them.
C16_ReferencesAreEqualIdentifiers ==
  Referenced =>
    IF NodeType(call.doc, CursorNode) # "id" THEN ret.value = <<>>
    ELSE LET ids == IdentifiersNamed(call.doc, getNodeText(call.doc, CursorNode))
         IN /\ ret.value = [i \in 1..Len(ids) |->
                              [uri |-> call.doc, range |-> nodeToRange(call.doc, ids[i])]]
            /\ \E i \in 1..Len(ret.value) : ret.value[i].range = nodeToRange(call.doc, CursorNode)

\* findReferences has answered on an identifier that occurs twice, the cursor
\* being on the second occurrence.
C16_Witness ==
  /\ Referenced
  /\ NodeType(call.doc, CursorNode) = "id"
  /\ Len(ret.value) = 2
  /\ ret.value[2].range = nodeToRange(call.doc, CursorNode)

Renamed == call.fn = "executeRename" /\ call.doc # 0 /\ ret.status = "return"

\* C17: executeRename returns null exactly when findReferences at the position
\* is empty; otherwise its edit has the document as only key and one
\* replacement per reference, in the same order, with the reference's range and
\* the new name verbatim.
C17_RenameEditsEveryReference ==
  Renamed =>
    LET refs == findReferences(call.parser, call.extFault, call.doc, call.line, call.char).value
    IN /\ ret.value.null <=> refs = <<>>
       /\ ~ret.value.null =>
            /\ DOMAIN ret.value.value.changes = {call.doc}
            /\ ret.value.value.changes[call.doc] =
                 [i \in 1..Len(refs) |-> [range |-> refs[i].range, newText |-> call.newName]]

\* A rename of an identifier with two references to a name that is not an
\* identifier has returned its edit.
C17_Witness ==
  /\ Renamed
  /\ ~ret.value.null
  /\ Len(ret.value.value.changes[call.doc]) = 2
  /\ call.newName = <<"1", " ", "b">>

\* The settings in force after the e-th configuration notification: what the
\* client's configuration then was, for a client that answers
\* workspace/configuration; what the notification carried (the defaults when
\* it carried no section), for a client that does not.
SettingsAfter(e) ==
  IF hasConfigurationCapability THEN notified[e].client
  ELSE IF notified[e].section = <<>> THEN defaultSettings
  ELSE notified[e].section[1]

\* C18: every key of the settings cache is the uri of an open document, and
\* closing a document removes its entry and leaves the other entries as they
\* were.
C18_SettingsCacheOfOpenDocuments ==
  /\ DOMAIN documentSettings \subseteq OpenUris
  /\ event.kind = "close" =>
       /\ DOMAIN documentSettings = DOMAIN event.before \ {event.uri}
       /\ \A u \in DOMAIN documentSettings : documentSettings[u] = event.before[u]

\* A document with cached settings has been closed while another document's
\* settings stay cached.
C18_Witness ==
  /\ event.kind = "close"
  /\ event.uri \in DOMAIN event.before
  /\ DOMAIN documentSettings # {}

\* C19: a configuration notification revalidates every open document, and a
\* validation started after a notification caps its diagnostics with settings
\* obtained after that notification: requested after it from a client that
\* answers workspace/configuration, the new global settings otherwise.
C19_SettingsNotCachedAcrossChanges ==
  /\ event.kind = "config" =>
       \A u \in OpenUris :
         \/ \E i \in 1..Len(sent) : sent[i].uri = u /\ sent[i].started = Epoch
         \/ \E i \in 1..Len(validations) :
              /\ validations[i].uri = u /\ validations[i].live
              /\ validations[i].started = Epoch
  /\ \A i \in 1..Len(sent) :
       sent[i].started >= 1 =>
         /\ \E e \in sent[i].started..Epoch : sent[i].settings = SettingsAfter(e)
         /\ sent[i].asked >= sent[i].started
         /\ Len(sent[i].diagnostics) <= sent[i].settings.maxNumberOfProblems

\* After two notifications with different settings, a validation started
\* after the second one has sent diagnostics capped with the second settings,
\* fewer than the document has.
C19_Witness ==
  /\ Epoch = 2
  /\ SettingsAfter(1) # SettingsAfter(2)
  /\ \E i \in 1..Len(sent) :
       /\ sent[i].started = 2
       /\ sent[i].settings = SettingsAfter(2)
       /\ Len(sent[i].diagnostics) = sent[i].settings.maxNumberOfProblems
       /\ hasConfigurationCapability

\* C21: the array validateScrapScript(text, k) returns is the first k entries
\* of the error-node diagnostics followed by the diagnostics of the six
\* validators in registration order.
C21_OrderingAndTruncation ==
  (Validated /\ call.rev = "enhanced" /\ ParseOutcome.kind = "tree") =>
    /\ ret.status = "return"
    /\ ret.diags = SubSeq(AllFindings(call.doc), 1, Min(call.k, Len(AllFindings(call.doc))))

\* validateScrapScript of the enhanced revision has run to the end of its try
\* block and returned everything it found.
ValidatedInFull ==
  /\ Validated
  /\ call.rev = "enhanced"
  /\ ParseOutcome.kind = "tree"
  /\ call.fault.at = 0
  /\ Len(ret.diags) < call.k

\* The number of returned diagnostics with the given severity and message on
\* the span of node n.
ReportsOn(n, severity, message) ==
  Cardinality({j \in 1..Len(ret.diags) :
                 /\ ret.diags[j].severity = severity
                 /\ ret.diags[j].range = nodeToRange(call.doc, n)
                 /\ ret.diags[j].message[1] = message})

AllNodes(d) == 1..Len(documents[d].nodes)

\* The pattern_case children of a pattern-matching construct.
CasesOf(d, n) == {c \in AllNodes(d) : Parent(d, c) = n /\ NodeType(d, c) = "pattern_case"}

\* The pattern of a case: its first named child.
CasePattern(d, c) == NamedChild(d, c, 0)

\* C22: a pattern-matching construct gets exactly one Warning if and only if it
\* has a case and none of its case patterns is an identifier (of any
\* spelling, the placeholder _ included) or a hole; otherwise it gets none.
C22_PatternExhaustiveness ==
  ValidatedInFull =>
    \A n \in AllNodes(call.doc) :
      NodeType(call.doc, n) \in {"match_fun", "pattern_match"} =>
        ReportsOn(n, "Warning",
                  "Pattern match may not be exhaustive. Consider adding a catch-all case like '| _ -> ()'.")
          = IF /\ CasesOf(call.doc, n) # {}
               /\ \A c \in CasesOf(call.doc, n) :
                    \/ CasePattern(call.doc, c) = NoNode
                    \/ NodeType(call.doc, CasePattern(call.doc, c)) \notin {"id", "hole"}
            THEN 1 ELSE 0

\* The coarse type tag of a list element as stated: int or float for a number
\* without or with a ".", the node type for text, bytes, tag, list, record and
\* hole, function for both kinds of function, and none otherwise.
StatedTag(d, c) ==
  LET t == NodeType(d, c)
  IN IF t = "number"
     THEN (IF \E i \in 1..Len(getNodeText(d, c)) : getNodeText(d, c)[i] = "." THEN "float" ELSE "int")
     ELSE IF t \in {"text", "bytes", "tag", "list", "record", "hole"} THEN t
     ELSE IF t \in {"fun", "match_fun"} THEN "function"
     ELSE "none"

\* The tags inferred among the named children of list n.
StatedTags(d, n) ==
  {StatedTag(d, c) : c \in {k \in AllNodes(d) : Parent(d, k) = n /\ NodeRec(d, k).named}} \ {"none"}

\* C23: a list literal gets exactly one Error saying that its elements must have
\* the same type if and only if more than one distinct type tag is inferred
\* among its named children; elements without a tag are ignored, and int and
\* float are distinct.
C23_ListHomogeneity ==
  ValidatedInFull =>
    \A n \in AllNodes(call.doc) :
      NodeType(call.doc, n) = "list" =>
        Cardinality({j \in 1..Len(ret.diags) :
                       /\ ret.diags[j].severity = "Error"
                       /\ ret.diags[j].range = nodeToRange(call.doc, n)
                       /\ ret.diags[j].message[1] = "List elements must have the same type. Found: "})
          = IF Cardinality(StatedTags(call.doc, n)) > 1 THEN 1 ELSE 0

\* The list of lists has been validated: the list of an int and a float and
\* the list of a tag, a text and the hole are reported, and nothing else is.
C23_Witness ==
  /\ ValidatedInFull
  /\ \E n \in AllNodes(call.doc) :
       /\ NodeType(call.doc, n) = "list"
       /\ StatedTags(call.doc, n) = {"int", "float"}
  /\ \E n \in AllNodes(call.doc) :
       /\ NodeType(call.doc, n) = "list"
       /\ StatedTags(call.doc, n) = {"list"}
       /\ Len(NamedChildren(call.doc, n)) > 1
  /\ Len(ret.diags) = 2

\* C24: a where node gets exactly one Error on its span if and only if its
\* children hold no three consecutive entries ";", identifier, "="; with that
\* sequence anywhere, also as its last three children, it gets none.
C24_WhereClauseStructure ==
  ValidatedInFull =>
    \A n \in AllNodes(call.doc) :
      NodeType(call.doc, n) = "where" =>
        ReportsOn(n, "Error", "Invalid where clause. Expected \"; identifier = expression\"")
          = IF \E i \in 1..(Len(Children(call.doc, n)) - 2) :
                 /\ NodeType(call.doc, Children(call.doc, n)[i]) = ";"
                 /\ NodeType(call.doc, Children(call.doc, n)[i + 1]) = "id"
                 /\ NodeType(call.doc, Children(call.doc, n)[i + 2]) = "="
            THEN 0 ELSE 1

\* A where node whose last three children are ";", an identifier and "=" has
\* been validated and is not reported.
C24_Witness ==
  /\ ValidatedInFull
  /\ \E n \in AllNodes(call.doc) :
       /\ NodeType(call.doc, n) = "where"
       /\ Len(Children(call.doc, n)) = 4
       /\ NodeType(call.doc, Children(call.doc, n)[2]) = ";"
       /\ NodeType(call.doc, Children(call.doc, n)[3]) = "id"
       /\ NodeType(call.doc, Children(call.doc, n)[4]) = "="
  /\ ret.diags = <<>>

\* The rules of the completion classifier in their order, and the condition of
\* each on the line up to the cursor and the node at the cursor.
ContextRules ==
  <<"tag", "where_clause", "pattern_match", "record_field", "type_annotation", "pipeline",
    "import", "global">>

\* The nodes from n up to the root, n included.
RECURSIVE AncestorChain(_, _)
AncestorChain(d, n) ==
  IF n = NoNode THEN <<>> ELSE <<n>> \o AncestorChain(d, Parent(d, n))

HasAncestorOrSelf(d, n, type) ==
  \E i \in 1..Len(AncestorChain(d, n)) : NodeType(d, AncestorChain(d, n)[i]) = type

Contains(text, sub) ==
  \E i \in 1..(Len(text) - Len(sub) + 1) : SubSeq(text, i, i + Len(sub) - 1) = sub

\* The first character of the text that is not white space is c.
BeginsWith(text, c) ==
  \E i \in 1..Len(text) :
    /\ text[i] = c
    /\ \A j \in 1..(i - 1) : text[j] \in {" ", "\t", "\n", "\r"}

RuleHolds(rule) ==
  LET d == call.doc
      prefix == CursorPrefix
      node == CursorNode
      parentType == IF Parent(d, node) = NoNode THEN "" ELSE NodeType(d, Parent(d, node))
  IN CASE rule = "tag" -> Contains(prefix, <<"#">>) \/ parentType = "tag"
       [] rule = "where_clause" -> BeginsWith(prefix, ";") \/ HasAncestorOrSelf(d, node, "where")
       [] rule = "pattern_match" -> BeginsWith(prefix, "|") \/ HasAncestorOrSelf(d, node, "pattern_match")
       [] rule = "record_field" -> Contains(prefix, <<".">>) \/ parentType = "record_access"
       [] rule = "type_annotation" -> Contains(prefix, <<" ", ":", " ">>) \/ parentType = "type_annotation"
       [] rule = "pipeline" -> Contains(prefix, <<"|", ">">>) \/ HasAncestorOrSelf(d, node, "pipeline")
       [] rule = "import" -> Contains(prefix, <<"i", "m", "p", "o", "r", "t">>) \/ Contains(prefix, <<"u", "s", "e">>)
       [] OTHER -> TRUE

\* The first rule, in the order of ContextRules, whose condition holds.
FirstRule ==
  ContextRules[CHOOSE i \in 1..Len(ContextRules) :
                 RuleHolds(ContextRules[i]) /\ \A j \in 1..(i - 1) : ~RuleHolds(ContextRules[j])]

\* The catalog getCompletionItems returns for each context of ContextRules.
CatalogOf(rule) ==
  CASE rule = "tag" -> getTagCompletions
    [] rule = "where_clause" -> getWhereClauseCompletions
    [] rule = "pattern_match" -> getPatternMatchCompletions
    [] rule = "record_field" -> getRecordFieldCompletions
    [] rule = "type_annotation" -> getTypeCompletions
    [] rule = "pipeline" -> getPipelineCompletions
    [] rule = "import" -> getImportCompletions
    [] OTHER -> getGlobalCompletions

\* C25: the completion context is that of the first rule, in the order tag,
\* where clause, pattern match, record field, type annotation, pipeline,
\* import, global, whose condition holds, also when several conditions hold.
C25_FirstMatchWins ==
  (Completed /\ ret.status = "return" /\ CursorNode # NoNode) =>
    /\ ret.items = CatalogOf(FirstRule)
    /\ \A i \in 1..Len(ContextRules) :
         ContextRules[i] # FirstRule => ret.items # CatalogOf(ContextRules[i])

\* Completion has answered on a line that starts with '|' inside a where
\* clause, where the conditions of the where-clause, pattern-match and
\* record-field rules hold, with the where-clause catalog.
C25_Witness ==
  /\ Completed
  /\ ret.status = "return"
  /\ BeginsWith(CursorPrefix, "|")
  /\ HasAncestorOrSelf(call.doc, CursorNode, "where")
  /\ Contains(CursorPrefix, <<".">>)
  /\ ~RuleHolds("tag")
  /\ ret.items = getWhereClauseCompletions

\* C28: getCompletionItems only ever returns the catalog of one of the
\* contexts tag, where_clause, pattern_match, record_field, type_annotation,
\* pipeline, import and global: never the function catalog or the operator
\* catalog on its own.
C28_NoFunctionOrOperatorContext ==
  (Completed /\ ret.status = "return") =>
    /\ \E i \in 1..Len(ContextRules) : ret.items = CatalogOf(ContextRules[i])
    /\ ret.items # getFunctionCompletions
    /\ ret.items # getOperatorCompletions

\* Completion has answered with the cursor right after an operator and with
\* the cursor inside the name of a function that is applied.
C28_Witness ==
  /\ Completed
  /\ ret.status = "return"
  /\ NodeType(call.doc, CursorNode) = "op"
  /\ ret.items = getGlobalCompletions

\* The node types with a case of their own in getHoverForNode of hover.ts.
HoverTypesModule == {"id", "op", "tag", "number", "text", "bytes", "fun", "match_fun", "where"}

RenderedTypes(rev) == IF rev = "module" THEN HoverTypesModule ELSE HoverTypes

RenderedAt(rev, d, n) ==
  IF rev = "module" THEN getHoverForNode(d, n) ELSE getEnhancedHoverForNode(d, n)

\* The places on the ancestor chain of node n, n included, whose node has a
\* renderer in the revision.
RenderedOn(rev, d, n) ==
  {i \in 1..Len(AncestorChain(d, n)) : NodeType(d, AncestorChain(d, n)[i]) \in RenderedTypes(rev)}

Nearest(places) == CHOOSE i \in places : \A j \in places : i <= j

\* C26: hover resolution ends on every node of the tree: it answers with the
\* text of the nearest node on the ancestor chain, the node itself included,
\* that has a renderer, and with null exactly when no node up to the root
\* has one.
C26_HoverClimbsToNearestRenderer ==
  (Hovered /\ ret.status = "return" /\ CursorNode # NoNode) =>
    LET d == call.doc
        chain == AncestorChain(d, CursorNode)
        places == RenderedOn(call.rev, d, CursorNode)
    IN /\ ret.hover.null <=> places = {}
       /\ places # {} =>
            /\ ret.hover = RenderedAt(call.rev, d, chain[Nearest(places)])
            /\ \A i \in places \ {Nearest(places)} :
                 NodeType(d, chain[i]) # NodeType(d, chain[Nearest(places)]) =>
                   ret.hover # RenderedAt(call.rev, d, chain[i])

\* Hover has answered on a node without a renderer whose parent has none
\* either, with the text of a node further up.
C26_Witness ==
  /\ Hovered
  /\ ret.status = "return"
  /\ call.rev = "enhanced"
  /\ CursorNode # NoNode
  /\ RenderedOn(call.rev, call.doc, CursorNode) # {}
  /\ Nearest(RenderedOn(call.rev, call.doc, CursorNode)) >= 3
  /\ ~ret.hover.null

CodeActed == call.fn = "getCodeActions" /\ call.doc # 0 /\ ret.status = "return"

Offered(title) == \E i \in 1..Len(ret.value) : ret.value[i].title = title

\* The line holds the character c and otherwise white space only.
HoldsOnly(line, c) ==
  \E i \in 1..Len(line) :
    /\ line[i] = c
    /\ \A j \in 1..Len(line) : j # i => line[j] \in {" ", "\t"}

TitlesOf(actions) == [i \in 1..Len(actions) |-> actions[i].title]

\* C27: the code actions offered depend on the range start only: 'Add
\* catch-all pattern' is offered exactly when the node at the range start is a
\* match_fun or has a match_fun ancestor, 'Complete where clause' exactly when
\* the start line holds ';' only, 'Complete pattern match' exactly when it
\* holds '|' only, and the last two are never offered together.
C27_CodeActionsByRangeStart ==
  CodeActed =>
    LET d == call.doc
        startLine == documents[d].lines[call.line + 1]
        collapsed == <<call.line, call.char, call.line, call.char>>
    IN /\ Offered("Add catch-all pattern") <=>
            (CursorNode # NoNode /\ HasAncestorOrSelf(d, CursorNode, "match_fun"))
       /\ Offered("Complete where clause") <=> HoldsOnly(startLine, ";")
       /\ Offered("Complete pattern match") <=> HoldsOnly(startLine, "|")
       /\ ~(Offered("Complete where clause") /\ Offered("Complete pattern match"))
       /\ TitlesOf(ret.value) = TitlesOf(getCodeActions(call.parser, call.extFault, d, collapsed).value)

\* Code actions have been asked for a range that starts on a line holding
\* ';' only and ends on a later line, and the where-clause action is offered
\* without the catch-all action.
C27_Witness ==
  /\ CodeActed
  /\ HoldsOnly(documents[call.doc].lines[call.line + 1], ";")
  /\ call.rangeEnd[1] > call.line
  /\ Offered("Complete where clause")
  /\ ~Offered("Add catch-all pattern")

\* What prepareRename answers at the position of the pending call.
PreparedHere == prepareRename(call.parser, call.extFault, call.doc, call.line, call.char)

\* C29: executeRename returns an edit only where prepareRename, at the same
\* position, returns a range: an identifier named like a built-in function or
\* a keyword is never edited.
C29_RenameConsistency ==
  (Renamed /\ ~ret.value.null) =>
    /\ PreparedHere.status = "return"
    /\ ~PreparedHere.value.null
    /\ getNodeText(call.doc, CursorNode) \notin Reserved

\* executeRename has returned an edit of the built-in to-int, at a position
\* where prepareRename returns null.
RenamedBuiltIn ==
  /\ Renamed
  /\ ~ret.value.null
  /\ getNodeText(call.doc, CursorNode) = <<"t", "o", "-", "i", "n", "t">>
  /\ PreparedHere.status = "return"
  /\ PreparedHere.value.null
  /\ \E i \in 1..Len(ret.value.value.changes[call.doc]) :
       ret.value.value.changes[call.doc][i].range = nodeToRange(call.doc, CursorNode)

\* C30: no diagnostics are sent for a document that is closed: every
\* sendDiagnostics is for a URI whose document is open at that moment, also
\* when the validation was awaiting its settings while the document closed.
C30_NoDiagnosticsForClosedDocuments ==
  \A i \in 1..Len(sent) : openDocuments[sent[i].uri] # 0

\* Every sendDiagnostics of a validation that runs to its end in the turn in
\* which it starts is for an open document.
SentAtOnceForOpenDocuments ==
  event.kind # "response" => \A i \in 1..Len(sent) : openDocuments[sent[i].uri] # 0

\* The client's answer has resumed a validation whose document was closed
\* while it waited: its diagnostics are sent for the closed document.
SentAfterClose ==
  /\ event.kind = "response"
  /\ \E i \in 1..Len(sent) : openDocuments[sent[i].uri] = 0
====
